---- MODULE Spec2Model ----
(***************************************************************************)
(* Model of the m8-files codec: the byte cursor (Reader / Writer), the     *)
(* instrument-slot decoders, the FM synth encoder/decoder and the FX cell  *)
(* remapper.  Bytes are naturals in 0..255; a String is the sequence of    *)
(* its UTF-8 bytes.  Every operator is translated from the Rust source it  *)
(* is named after ("Reader_read" is Reader::read, and so on).              *)
(***************************************************************************)
EXTENDS Integers, Sequences, FiniteSets, TLC

VARIABLES
    buffer,       \* Reader.buffer   (reader.rs:38)
    position,     \* Reader.position (reader.rs:39)
    wbuffer,      \* Writer.buffer   (reader.rs:18)
    status,       \* "run", or "panic" once a Rust panic has unwound the call
    call,         \* the last completed call: [op, at, arg, ret]
    version,      \* the Version the caller decodes / encodes under
    slot_number,  \* the caller's instrument index (passed as `number`)
    table_start,  \* cursor position at which the caller began decoding slots
    cell,         \* the FX cell being remapped
    mappings      \* [instr, table, eq]: the three remapper tables

vars == <<buffer, position, wbuffer, status, call, version, slot_number,
          table_start, cell, mappings>>

Byte == 0..255

NoCall == [op |-> "none", at |-> 0, arg |-> <<>>, ret |-> <<>>]

----------------------------------------------------------------------------
(* Bounds of the model.                                                    *)

\* longest Reader buffer explored by SpecReader
MaxLen == 3
\* longest Writer buffer explored by SpecWriter
MaxBuf == 3

\* byte values the bounded inputs are drawn from: NUL, 'A', the two bytes of
\* U+00E9 (valid together, invalid alone), and the 0xFF padding byte
ByteSamples == {0, 65, 195, 169, 255}

RECURSIVE SeqsUpTo(_, _)
SeqsUpTo(S, n) ==
    IF n = 0 THEN {<<>>}
    ELSE LET shorter == SeqsUpTo(S, n - 1)
         IN  shorter \cup {Append(s, x) : s \in {t \in shorter : Len(t) = n - 1}, x \in S}

Min(a, b) == IF a < b THEN a ELSE b

\* `let x = e; F(x)`: e is evaluated once and F applied to its value
Bind(e, F(_)) == CHOOSE y \in {F(x) : x \in {e}} : TRUE

----------------------------------------------------------------------------
(* reader.rs: Reader.  A reader value is [buffer, position, st]; st is     *)
(* "ok" until a panic or an Err, after which every later step of the same  *)
(* call is skipped (unwinding / the ? operator).                           *)

Reader_new(buf) == [buffer |-> buf, position |-> 0, st |-> "ok", hi |-> 0]

\* max of two naturals, used to record the highest index a call has read
Max(a, b) == IF a > b THEN a ELSE b

\* Reader::read: buffer[p] panics when p is out of range, before position moves
Reader_read(r) ==
    IF r.st # "ok" THEN [r |-> r, v |-> 0]
    ELSE IF r.position >= Len(r.buffer)
         THEN [r |-> [r EXCEPT !.st = "panic"], v |-> 0]
         ELSE [r |-> [r EXCEPT !.position = r.position + 1,
                               !.hi = Max(r.hi, r.position + 1)],
               v |-> r.buffer[r.position + 1]]

\* Reader::read_bytes: &buffer[p..p+n] panics when p+n exceeds the length
Reader_read_bytes(r, n) ==
    IF r.st # "ok" THEN [r |-> r, v |-> <<>>]
    ELSE IF r.position + n > Len(r.buffer)
         THEN [r |-> [r EXCEPT !.st = "panic"], v |-> <<>>]
         ELSE [r |-> [r EXCEPT !.position = r.position + n,
                               !.hi = IF n = 0 THEN r.hi ELSE Max(r.hi, r.position + n)],
               v |-> SubSeq(r.buffer, r.position + 1, r.position + n)]

\* Reader::read_bool
Reader_read_bool(r) ==
    Bind(Reader_read(r), LAMBDA b : [r |-> b.r, v |-> (b.v = 1)])

\* b.iter().position(|&x| x == 0 || x == 255): 0-based index of the first
\* terminator, or -1 for None
FirstTerminator(b) ==
    LET hits == {i \in 1..Len(b) : b[i] = 0 \/ b[i] = 255}
    IN  IF hits = {} THEN -1
        ELSE (CHOOSE i \in hits : \A j \in hits : i <= j) - 1

\* .unwrap_or(0) of reader.rs:71
TerminatorOrDefault(b) ==
    IF FirstTerminator(b) = -1 THEN 0 ELSE FirstTerminator(b)

\* std::str::from_utf8: well-formed UTF-8 (RFC 3629 table)
Cont(x) == x >= 128 /\ x <= 191

\* bytes of the character a lead byte x starts; 0 when x cannot start one
Utf8Width(x) ==
    IF x < 128 THEN 1
    ELSE IF x >= 194 /\ x <= 223 THEN 2
    ELSE IF x >= 224 /\ x <= 239 THEN 3
    ELSE IF x >= 240 /\ x <= 244 THEN 4
    ELSE 0

\* b[i] starts a well-formed character that is followed by a non-continuation
Utf8CharAt(b, i) ==
    LET x == b[i]
        w == Utf8Width(x)
    IN  /\ w > 0
        /\ i + w - 1 <= Len(b)
        /\ \A k \in 1..(w - 1) : Cont(b[i + k])
        /\ (i + w <= Len(b) => ~Cont(b[i + w]))
        /\ (x = 224 => b[i + 1] >= 160)
        /\ (x = 237 => b[i + 1] <= 159)
        /\ (x = 240 => b[i + 1] >= 144)
        /\ (x = 244 => b[i + 1] <= 143)

\* every byte is a well-formed character's lead or one of its continuations
Utf8Valid(b) ==
    /\ (Len(b) > 0 => ~Cont(b[1]))
    /\ \A i \in 1..Len(b) : ~Cont(b[i]) => Utf8CharAt(b, i)

\* read_string with the terminator kept in the text (b[0..=end])
Reader_read_string_keepsTerminator(r, n) ==
    Bind(Reader_read_bytes(r, n), LAMBDA bs :
    Bind(IF FirstTerminator(bs.v) = -1 THEN 0 ELSE FirstTerminator(bs.v) + 1, LAMBDA end :
        IF bs.r.st # "ok" THEN [r |-> bs.r, v |-> <<>>]
        ELSE [r |-> bs.r, v |-> SubSeq(bs.v, 1, end)]))

\* Reader::read_string: read_bytes(n), cut at the terminator, from_utf8().expect()
Reader_read_string(r, n) ==
    Bind(Reader_read_bytes(r, n), LAMBDA bs :
    Bind(TerminatorOrDefault(bs.v), LAMBDA end :
    Bind(SubSeq(bs.v, 1, end), LAMBDA txt :
        IF bs.r.st # "ok" THEN [r |-> bs.r, v |-> <<>>]
        ELSE IF ~Utf8Valid(txt) THEN [r |-> [bs.r EXCEPT !.st = "panic"], v |-> <<>>]
        ELSE [r |-> bs.r, v |-> txt])))

Reader_pos(r) == r.position

Reader_set_pos(r, n) == [r EXCEPT !.position = n]

\* n successive reader.read() calls; v is the sequence of the bytes read.
\* When fewer than n bytes are left, the reads up to the end of the buffer
\* succeed and the next one panics.
ReadN(r, n) ==
    LET len == Len(r.buffer)
    IN  IF r.st # "ok" \/ n = 0 THEN [r |-> r, v |-> [i \in 1..n |-> 0]]
        ELSE IF r.position + n > len
        THEN [r |-> [r EXCEPT !.st = "panic",
                              !.position = Max(r.position, len),
                              !.hi = IF r.position < len THEN Max(r.hi, len) ELSE r.hi],
              v |-> [i \in 1..n |-> 0]]
        ELSE [r |-> [r EXCEPT !.position = r.position + n,
                              !.hi = Max(r.hi, r.position + n)],
              v |-> SubSeq(r.buffer, r.position + 1, r.position + n)]

----------------------------------------------------------------------------
(* reader.rs: Writer.  A writer value is [buffer, st].                     *)

Writer_write(w, v) == [w EXCEPT !.buffer = Append(w.buffer, v)]

\* Writer::write_string of reader.rs:24: the body is empty
Writer_write_string(w, str, fill) == w

Writer_pos(w) == Len(w.buffer)

\* the byte v, n times
Repeat(v, n) == [i \in 1..n |-> v]

\* fill_till with an inclusive range (0..=to_fill)
Writer_fill_till_inclusive(w, v, until) ==
    IF until < Len(w.buffer) THEN [w EXCEPT !.st = "panic"]
    ELSE [w EXCEPT !.buffer = w.buffer \o Repeat(v, until - Len(w.buffer) + 1)]

\* Writer::fill_till: `until - self.buffer.len()` on usize underflows when
\* until < len (a panic in a checked build, an unbounded push loop ending in
\* an allocation failure otherwise): either way the call does not return
Writer_fill_till(w, v, until) ==
    IF until < Len(w.buffer) THEN [w EXCEPT !.st = "panic"]
    ELSE [w EXCEPT !.buffer = w.buffer \o Repeat(v, until - Len(w.buffer))]

----------------------------------------------------------------------------
(* The cursor as a state machine: one action per Reader / Writer method.   *)

\* the Reader the state holds, as a reader value
Cur == [buffer |-> buffer, position |-> position, st |-> "ok", hi |-> 0]

\* the Writer the state holds, as a writer value
CurW == [buffer |-> wbuffer, st |-> "ok"]

StatusOf(st) == IF st = "ok" THEN "run" ELSE "panic"

\* a Reader method returned (or panicked) with result res = [r, v]
ReaderStep(op, arg, res) ==
    /\ status = "run"
    /\ position' = res.r.position
    /\ status' = StatusOf(res.r.st)
    /\ call' = [op |-> op, at |-> position, arg |-> arg, ret |-> res.v]
    /\ UNCHANGED <<buffer, wbuffer, version, slot_number, table_start, cell, mappings>>

\* a Writer method returned (or panicked) leaving the writer as w
WriterStep(op, arg, w) ==
    /\ status = "run"
    /\ wbuffer' = w.buffer
    /\ status' = StatusOf(w.st)
    /\ call' = [op |-> op, at |-> Len(wbuffer), arg |-> arg, ret |-> <<>>]
    /\ UNCHANGED <<buffer, position, version, slot_number, table_start, cell, mappings>>

Read == ReaderStep("read", <<>>, Reader_read(Cur))

ReadBytes == \E n \in 0..MaxLen : ReaderStep("read_bytes", <<n>>, Reader_read_bytes(Cur, n))

ReadBool == ReaderStep("read_bool", <<>>, Reader_read_bool(Cur))

ReadString == \E n \in 0..MaxLen : ReaderStep("read_string", <<n>>, Reader_read_string(Cur, n))

Pos == ReaderStep("pos", <<>>, [r |-> Cur, v |-> Reader_pos(Cur)])

SetPos == \E n \in 0..Len(buffer) : ReaderStep("set_pos", <<n>>, [r |-> Reader_set_pos(Cur, n), v |-> <<>>])

\* strings handed to write_string: empty, ASCII, a two-byte character, and
\* one longer than any field width the bound allows
StrSamples == {s \in SeqsUpTo({65, 66}, MaxBuf + 1) : TRUE} \cup {<<195, 169>>}

Write == \E v \in ByteSamples :
    /\ Len(wbuffer) < MaxBuf
    /\ WriterStep("write", <<v>>, Writer_write(CurW, v))

WriteString == \E s \in StrSamples, n \in 0..MaxBuf :
    /\ Len(wbuffer) + n <= MaxBuf
    /\ WriterStep("write_string", <<s, n>>, Writer_write_string(CurW, s, n))

FillTill == \E v \in ByteSamples, until \in 0..MaxBuf :
    WriterStep("fill_till", <<v, until>>, Writer_fill_till(CurW, v, until))

WPos == WriterStep("pos", <<>>, CurW)

NoVersion == [major |-> 0, minor |-> 0]
NoCell == [command |-> 255, value |-> 0]
NoMapping == [mapping |-> <<>>, tracking |-> {}]
NoMappings == [instr |-> NoMapping, table |-> NoMapping, eq |-> NoMapping]

\* Reader::new over every bounded buffer
InitReader ==
    /\ buffer \in SeqsUpTo(ByteSamples, MaxLen)
    /\ position = 0
    /\ wbuffer = <<>>
    /\ status = "run"
    /\ call = NoCall
    /\ version = NoVersion
    /\ slot_number = 0
    /\ table_start = 0
    /\ cell = NoCell
    /\ mappings = NoMappings

NextReader == Read \/ ReadBytes \/ ReadBool \/ ReadString \/ Pos \/ SetPos

SpecReader == InitReader /\ [][NextReader]_vars

\* an empty Writer
InitWriter ==
    /\ buffer = <<>>
    /\ position = 0
    /\ wbuffer = <<>>
    /\ status = "run"
    /\ call = NoCall
    /\ version = NoVersion
    /\ slot_number = 0
    /\ table_start = 0
    /\ cell = NoCell
    /\ mappings = NoMappings

NextWriter == Write \/ WriteString \/ FillTill \/ WPos

SpecWriter == InitWriter /\ [][NextWriter]_vars

----------------------------------------------------------------------------
(* fx.rs: FX::map_instr.  A mapping table is [mapping, tracking]: mapping   *)
(* is the Vec<u8> indexed by the old number, tracking the command ids of   *)
(* instrument_tracking_commands / table_tracking_commands /                *)
(* eq_tracking_commands.                                                   *)

\* longest remapping table
MaxMapLen == 2

\* map_instr with the table and EQ branches in the wrong order
FX_map_instr_eqFirst(self, instrument_mapping, table_mapping, eq_mapping) ==
    LET uval == self.value
    IN  IF self.command \in instrument_mapping.tracking /\ uval < Len(instrument_mapping.mapping)
        THEN [command |-> self.command, value |-> instrument_mapping.mapping[uval + 1]]
        ELSE IF self.command \in eq_mapping.tracking /\ uval < Len(eq_mapping.mapping)
        THEN [command |-> self.command, value |-> eq_mapping.mapping[uval + 1]]
        ELSE IF self.command \in table_mapping.tracking /\ uval < Len(table_mapping.mapping)
        THEN [command |-> self.command, value |-> table_mapping.mapping[uval + 1]]
        ELSE self

\* map_instr clearing the cells it does not remap (FX::default())
FX_map_instr_clearsUntracked(self, instrument_mapping, table_mapping, eq_mapping) ==
    LET uval == self.value
    IN  IF self.command \in instrument_mapping.tracking /\ uval < Len(instrument_mapping.mapping)
        THEN [command |-> self.command, value |-> instrument_mapping.mapping[uval + 1]]
        ELSE IF self.command \in table_mapping.tracking /\ uval < Len(table_mapping.mapping)
        THEN [command |-> self.command, value |-> table_mapping.mapping[uval + 1]]
        ELSE IF self.command \in eq_mapping.tracking /\ uval < Len(eq_mapping.mapping)
        THEN [command |-> self.command, value |-> eq_mapping.mapping[uval + 1]]
        ELSE [command |-> 255, value |-> 0]

FX_map_instr(self, instrument_mapping, table_mapping, eq_mapping) ==
    LET uval == self.value
    IN  IF self.command \in instrument_mapping.tracking /\ uval < Len(instrument_mapping.mapping)
        THEN [command |-> self.command, value |-> instrument_mapping.mapping[uval + 1]]
        ELSE IF self.command \in table_mapping.tracking /\ uval < Len(table_mapping.mapping)
        THEN [command |-> self.command, value |-> table_mapping.mapping[uval + 1]]
        ELSE IF self.command \in eq_mapping.tracking /\ uval < Len(eq_mapping.mapping)
        THEN [command |-> self.command, value |-> eq_mapping.mapping[uval + 1]]
        ELSE self

\* command ids of the bounded cells: one the tables may track, one no table
\* tracks, and the empty-cell id
CmdSamples == {0, 1, 255}

MappingSamples ==
    [mapping : SeqsUpTo(0..(MaxMapLen - 1), MaxMapLen), tracking : {{}, {0}}]

\* the phrase remapper replaces a cell c by c.map_instr(..)
MapInstr == \E c \in [command : CmdSamples, value : 0..MaxMapLen] :
    /\ status = "run"
    /\ cell' = FX_map_instr(c, mappings.instr, mappings.table, mappings.eq)
    /\ call' = [op |-> "map_instr", at |-> 0, arg |-> <<c>>, ret |-> cell']
    /\ UNCHANGED <<buffer, position, wbuffer, status, version, slot_number, table_start, mappings>>

InitFx ==
    /\ buffer = <<>>
    /\ position = 0
    /\ wbuffer = <<>>
    /\ status = "run"
    /\ call = NoCall
    /\ version = NoVersion
    /\ slot_number = 0
    /\ table_start = 0
    /\ cell = NoCell
    /\ mappings \in [instr : MappingSamples, table : MappingSamples, eq : MappingSamples]

NextFx == MapInstr

SpecFx == InitFx /\ [][NextFx]_vars

----------------------------------------------------------------------------
(* version.rs is not among the sources: Version is modelled from the        *)
(* specification (a two-byte header, major then minor; at_least is          *)
(* lexicographic).                                                         *)

Version_SIZE == 2

Version_at_least(ver, M, m) ==
    ver.major > M \/ (ver.major = M /\ ver.minor >= m)

Version_from_reader(r) ==
    Bind(ReadN(r, Version_SIZE), LAMBDA f :
        [r |-> f.r, v |-> [major |-> f.v[1], minor |-> f.v[2]]])

----------------------------------------------------------------------------
(* instrument.rs: modulators, SynthParams and the instrument variants.     *)
(* A decoder takes a reader value and returns [r, v]: the reader after the *)
(* call and the decoded value (meaningful when r.st = "ok").               *)

INSTRUMENT_MEMORY_SIZE == 215
Mod_SIZE == 6

\* the ? operator: an Err(ParseError) ends the call
Fail(r, how) == IF r.st = "ok" THEN [r EXCEPT !.st = how] ELSE r

\* set_pos inside a decoder: skipped once the call has failed
Seek(r, n) == IF r.st = "ok" THEN Reader_set_pos(r, n) ELSE r

AHDEnv_from_reader2(r) ==
    Bind(ReadN(r, 5), LAMBDA f :
    Bind(Reader_read(f.r), LAMBDA pad :
        [r |-> pad.r,
         v |-> [kind |-> "AHDEnv", dest |-> f.v[1], amount |-> f.v[2],
                attack |-> f.v[3], hold |-> f.v[4], decay |-> f.v[5]]]))

AHDEnv_from_reader3(r, dest) ==
    Bind(ReadN(r, 4), LAMBDA f :
        [r |-> f.r,
         v |-> [kind |-> "AHDEnv", dest |-> dest, amount |-> f.v[1],
                attack |-> f.v[2], hold |-> f.v[3], decay |-> f.v[4]]])

\* impl Default for AHDEnv (derived), then to_mod()
AHDEnv_default ==
    [kind |-> "AHDEnv", dest |-> 0, amount |-> 0, attack |-> 0, hold |-> 0, decay |-> 0]

LFO_from_reader2(r) ==
    Bind(ReadN(r, 5), LAMBDA f :
    Bind(Reader_read(f.r), LAMBDA pad :
        [r |-> pad.r,
         v |-> [kind |-> "LFO", shape |-> f.v[1], dest |-> f.v[2],
                trigger_mode |-> f.v[3], freq |-> f.v[4], amount |-> f.v[5]]]))

LFO_from_reader3(r, dest) ==
    Bind(ReadN(r, 4), LAMBDA f :
        [r |-> f.r,
         v |-> [kind |-> "LFO", dest |-> dest, amount |-> f.v[1], shape |-> f.v[2],
                trigger_mode |-> f.v[3], freq |-> f.v[4]]])

ADSREnv_from_reader(r, dest) ==
    Bind(ReadN(r, 5), LAMBDA f :
        [r |-> f.r,
         v |-> [kind |-> "ADSREnv", dest |-> dest, amount |-> f.v[1], attack |-> f.v[2],
                decay |-> f.v[3], sustain |-> f.v[4], release |-> f.v[5]]])

DrumEnv_from_reader(r, dest) ==
    Bind(ReadN(r, 4), LAMBDA f :
        [r |-> f.r,
         v |-> [kind |-> "DrumEnv", dest |-> dest, amount |-> f.v[1], peak |-> f.v[2],
                body |-> f.v[3], decay |-> f.v[4]]])

TrigEnv_from_reader(r, dest) ==
    Bind(ReadN(r, 5), LAMBDA f :
        [r |-> f.r,
         v |-> [kind |-> "TrigEnv", dest |-> dest, amount |-> f.v[1], attack |-> f.v[2],
                hold |-> f.v[3], decay |-> f.v[4], src |-> f.v[5]]])

TrackingEnv_from_reader(r, dest) ==
    Bind(ReadN(r, 4), LAMBDA f :
        [r |-> f.r,
         v |-> [kind |-> "TrackingEnv", dest |-> dest, amount |-> f.v[1], src |-> f.v[2],
                lval |-> f.v[3], hval |-> f.v[4]]])

\* the match of Mod::from_reader: an unknown type nibble is a panic!
ModOfType(r, ty, dest) ==
    CASE ty = 0 -> AHDEnv_from_reader3(r, dest)
      [] ty = 1 -> ADSREnv_from_reader(r, dest)
      [] ty = 2 -> DrumEnv_from_reader(r, dest)
      [] ty = 3 -> LFO_from_reader3(r, dest)
      [] ty = 4 -> TrigEnv_from_reader(r, dest)
      [] ty = 5 -> TrackingEnv_from_reader(r, dest)
      [] OTHER  -> [r |-> Fail(r, "panic"), v |-> <<>>]

\* Mod::from_reader with the final set_pos left out
Mod_from_reader_noRealign(r) ==
    Bind(Reader_pos(r), LAMBDA start_pos :
    Bind(Reader_read(r), LAMBDA first_byte :
    Bind(ModOfType(first_byte.r, first_byte.v \div 16, first_byte.v % 16), LAMBDA m :
        [r |-> m.r, v |-> m.v])))

Mod_from_reader(r) ==
    Bind(Reader_pos(r), LAMBDA start_pos :
    Bind(Reader_read(r), LAMBDA first_byte :
    Bind(ModOfType(first_byte.r, first_byte.v \div 16, first_byte.v % 16), LAMBDA m :
        [r |-> Seek(m.r, start_pos + Mod_SIZE), v |-> m.v])))

ControlChange_from_reader(r) ==
    Bind(ReadN(r, 2), LAMBDA f :
        [r |-> f.r, v |-> [number |-> f.v[1], value |-> f.v[2]]])

\* n ControlChange::from_reader calls in a row; v is the sequence of their values
ControlChanges(r, n) ==
    Bind(ReadN(r, 2 * n), LAMBDA f :
        [r |-> f.r, v |-> [i \in 1..n |-> [number |-> f.v[2 * i - 1], value |-> f.v[2 * i]]]])

\* the SynthParams value built from its ten leading bytes b and its mods
SynthParamsOf(volume, pitch, fine_tune, b, mods) ==
    [volume |-> volume, pitch |-> pitch, fine_tune |-> fine_tune,
     filter_type |-> b[1], filter_cutoff |-> b[2], filter_res |-> b[3],
     amp |-> b[4], limit |-> b[5],
     mixer_pan |-> b[6], mixer_dry |-> b[7], mixer_chorus |-> b[8],
     mixer_delay |-> b[9], mixer_reverb |-> b[10],
     mods |-> mods]

SynthParams_from_reader2(r, volume, pitch, fine_tune) ==
    Bind(ReadN(r, 10), LAMBDA f :
    Bind(AHDEnv_from_reader2(f.r), LAMBDA m1 :
    Bind(AHDEnv_from_reader2(m1.r), LAMBDA m2 :
    Bind(LFO_from_reader2(m2.r), LAMBDA m3 :
    Bind(LFO_from_reader2(m3.r), LAMBDA m4 :
        [r |-> m4.r,
         v |-> SynthParamsOf(volume, pitch, fine_tune, f.v, <<m1.v, m2.v, m3.v, m4.v>>)])))))

\* SynthParams::from_reader3 with the mod gap not skipped
SynthParams_from_reader3_noGap(r, volume, pitch, fine_tune, mod_offset) ==
    Bind(ReadN(r, 10), LAMBDA f :
    Bind(Mod_from_reader(f.r), LAMBDA m1 :
    Bind(Mod_from_reader(m1.r), LAMBDA m2 :
    Bind(Mod_from_reader(m2.r), LAMBDA m3 :
    Bind(Mod_from_reader(m3.r), LAMBDA m4 :
        [r |-> m4.r,
         v |-> SynthParamsOf(volume, pitch, fine_tune, f.v, <<m1.v, m2.v, m3.v, m4.v>>)])))))

SynthParams_from_reader3(r, volume, pitch, fine_tune, mod_offset) ==
    Bind(ReadN(r, 10), LAMBDA f :
    Bind(Seek(f.r, Reader_pos(f.r) + mod_offset), LAMBDA g :
    Bind(Mod_from_reader(g), LAMBDA m1 :
    Bind(Mod_from_reader(m1.r), LAMBDA m2 :
    Bind(Mod_from_reader(m2.r), LAMBDA m3 :
    Bind(Mod_from_reader(m3.r), LAMBDA m4 :
        [r |-> m4.r,
         v |-> SynthParamsOf(volume, pitch, fine_tune, f.v, <<m1.v, m2.v, m3.v, m4.v>>)]))))))

\* the closures |reader, vol, pi, ft| SynthParams::from_reader2(..) and
\* |reader, vol, pi, ft| SynthParams::from_reader3(.., mod_offset), as values
Callback2 == [fn |-> "from_reader2", mod_offset |-> 0]
Callback3(mod_offset) == [fn |-> "from_reader3", mod_offset |-> mod_offset]

\* synth_callback(reader, volume, pitch, fine_tune)
CallSynth(synth_callback, r, volume, pitch, fine_tune) ==
    IF synth_callback.fn = "from_reader2"
    THEN SynthParams_from_reader2(r, volume, pitch, fine_tune)
    ELSE SynthParams_from_reader3(r, volume, pitch, fine_tune, synth_callback.mod_offset)

\* f holds transpeq, table_tick, volume, pitch, fine_tune and the five body bytes
WavSynth_from_reader(r, number, synth_callback) ==
    Bind(Reader_read_string(r, 12), LAMBDA name :
    Bind(ReadN(name.r, 10), LAMBDA f :
    Bind(CallSynth(synth_callback, f.r, f.v[3], f.v[4], f.v[5]), LAMBDA sp :
        [r |-> sp.r,
         v |-> [kind |-> "WavSynth", number |-> number, name |-> name.v,
                transpose |-> (f.v[1] % 2 # 0), table_tick |-> f.v[2],
                synth_params |-> sp.v,
                shape |-> f.v[6], size |-> f.v[7], mult |-> f.v[8],
                warp |-> f.v[9], mirror |-> f.v[10]]])))

MacroSynth_from_reader(r, number, synth_callback) ==
    Bind(Reader_read_string(r, 12), LAMBDA name :
    Bind(ReadN(name.r, 10), LAMBDA f :
    Bind(CallSynth(synth_callback, f.r, f.v[3], f.v[4], f.v[5]), LAMBDA sp :
        [r |-> sp.r,
         v |-> [kind |-> "MacroSynth", number |-> number, name |-> name.v,
                transpose |-> (f.v[1] % 2 # 0), table_tick |-> f.v[2],
                synth_params |-> sp.v,
                shape |-> f.v[6], timbre |-> f.v[7], color |-> f.v[8],
                degrade |-> f.v[9], redux |-> f.v[10]]])))

\* offset of sample_path in the slot (0x57)
SAMPLE_PATH_OFFSET == 87

\* Sampler::from_reader reading sample_path where SynthParams left the cursor
Sampler_from_reader_noSeek(r, start_pos, number, synth_callback) ==
    Bind(Reader_read_string(r, 12), LAMBDA name :
    Bind(ReadN(name.r, 11), LAMBDA f :
    Bind(CallSynth(synth_callback, f.r, f.v[3], f.v[4], f.v[5]), LAMBDA sp :
    Bind(Reader_read_string(sp.r, 128), LAMBDA sample_path :
        [r |-> sample_path.r,
         v |-> [kind |-> "Sampler", number |-> number, name |-> name.v,
                eq_number |-> f.v[1] \div 2,
                transpose |-> (f.v[1] % 2 # 0), table_tick |-> f.v[2],
                synth_params |-> sp.v,
                sample_path |-> sample_path.v,
                play_mode |-> f.v[6], slice |-> f.v[7], start |-> f.v[8],
                loop_start |-> f.v[9], length |-> f.v[10], degrade |-> f.v[11]]]))))

\* Sampler::from_reader with a sample_path field of 129 bytes
Sampler_from_reader_longPath(r, start_pos, number, synth_callback) ==
    Bind(Reader_read_string(r, 12), LAMBDA name :
    Bind(ReadN(name.r, 11), LAMBDA f :
    Bind(CallSynth(synth_callback, f.r, f.v[3], f.v[4], f.v[5]), LAMBDA sp :
    Bind(Reader_read_string(Seek(sp.r, start_pos + SAMPLE_PATH_OFFSET), 129), LAMBDA sample_path :
        [r |-> sample_path.r,
         v |-> [kind |-> "Sampler", number |-> number, name |-> name.v,
                eq_number |-> f.v[1] \div 2,
                transpose |-> (f.v[1] % 2 # 0), table_tick |-> f.v[2],
                synth_params |-> sp.v,
                sample_path |-> sample_path.v,
                play_mode |-> f.v[6], slice |-> f.v[7], start |-> f.v[8],
                loop_start |-> f.v[9], length |-> f.v[10], degrade |-> f.v[11]]]))))

\* f holds transpeq .. fine_tune and the six body bytes
Sampler_from_reader(r, start_pos, number, synth_callback) ==
    Bind(Reader_read_string(r, 12), LAMBDA name :
    Bind(ReadN(name.r, 11), LAMBDA f :
    Bind(CallSynth(synth_callback, f.r, f.v[3], f.v[4], f.v[5]), LAMBDA sp :
    Bind(Reader_read_string(Seek(sp.r, start_pos + SAMPLE_PATH_OFFSET), 128), LAMBDA sample_path :
        [r |-> sample_path.r,
         v |-> [kind |-> "Sampler", number |-> number, name |-> name.v,
                eq_number |-> f.v[1] \div 2,
                transpose |-> (f.v[1] % 2 # 0), table_tick |-> f.v[2],
                synth_params |-> sp.v,
                sample_path |-> sample_path.v,
                play_mode |-> f.v[6], slice |-> f.v[7], start |-> f.v[8],
                loop_start |-> f.v[9], length |-> f.v[10], degrade |-> f.v[11]]]))))

\* impl Default for Operator (derived)
Operator_default ==
    [shape |-> 0, ratio |-> 0, ratio_fine |-> 0, level |-> 0, feedback |-> 0,
     retrigger |-> 0, mod_a |-> 0, mod_b |-> 0]

\* the four operators from the transposed blocks: shapes, (ratio, ratio_fine)
\* pairs, (level, feedback) pairs, mod_a, mod_b
OperatorsOf(sh, ra, lv, ma, mb) ==
    [i \in 1..4 |->
        [Operator_default EXCEPT
            !.shape = sh[i],
            !.ratio = ra[2 * i - 1], !.ratio_fine = ra[2 * i],
            !.level = lv[2 * i - 1], !.feedback = lv[2 * i],
            !.mod_a = ma[i], !.mod_b = mb[i]]]

\* f holds transpeq .. fine_tune and algo; the shapes are read from 1.4 on
FMSynth_from_reader(r, ver, number, synth_callback) ==
    Bind(Reader_read_string(r, 12), LAMBDA name :
    Bind(ReadN(name.r, 6), LAMBDA f :
    Bind(IF Version_at_least(ver, 1, 4) THEN ReadN(f.r, 4)
         ELSE [r |-> f.r, v |-> <<0, 0, 0, 0>>], LAMBDA sh :
    Bind(ReadN(sh.r, 8), LAMBDA ra :
    Bind(ReadN(ra.r, 8), LAMBDA lv :
    Bind(ReadN(lv.r, 4), LAMBDA ma :
    Bind(ReadN(ma.r, 4), LAMBDA mb :
    Bind(ReadN(mb.r, 4), LAMBDA md :
    Bind(CallSynth(synth_callback, md.r, f.v[3], f.v[4], f.v[5]), LAMBDA sp :
        [r |-> sp.r,
         v |-> [kind |-> "FMSynth", number |-> number, name |-> name.v,
                eq_number |-> f.v[1] \div 2,
                transpose |-> (f.v[1] % 2 # 0), table_tick |-> f.v[2],
                synth_params |-> sp.v,
                algo |-> f.v[6], operators |-> OperatorsOf(sh.v, ra.v, lv.v, ma.v, mb.v),
                mod1 |-> md.v[1], mod2 |-> md.v[2], mod3 |-> md.v[3], mod4 |-> md.v[4]]])))))))))

\* f holds table_tick, port, channel, bank_select, program_change
MIDIOut_from_reader(r, number) ==
    Bind(Reader_read_string(r, 12), LAMBDA name :
    Bind(Reader_read_bool(name.r), LAMBDA transpose :
    Bind(ReadN(transpose.r, 5), LAMBDA f :
    Bind(Reader_read_bytes(f.r, 3), LAMBDA skip :
    Bind(ControlChanges(skip.r, 8), LAMBDA cc :
        [r |-> cc.r,
         v |-> [kind |-> "MIDIOut", number |-> number, name |-> name.v,
                transpose |-> transpose.v, table_tick |-> f.v[1],
                port |-> f.v[2], channel |-> f.v[3], bank_select |-> f.v[4],
                program_change |-> f.v[5], custom_cc |-> cc.v,
                mods |-> <<AHDEnv_default, AHDEnv_default, AHDEnv_default, AHDEnv_default>>]])))))

\* f holds transpeq .. fine_tune; g holds scale, shift, swarm, width, subosc
HyperSynth_from_reader(r, number, synth_callback) ==
    Bind(Reader_read_string(r, 12), LAMBDA name :
    Bind(ReadN(name.r, 5), LAMBDA f :
    Bind(ReadN(f.r, 7), LAMBDA chord :
    Bind(ReadN(chord.r, 5), LAMBDA g :
    Bind(CallSynth(synth_callback, g.r, f.v[3], f.v[4], f.v[5]), LAMBDA sp :
        [r |-> sp.r,
         v |-> [kind |-> "HyperSynth", number |-> number, name |-> name.v,
                eq_number |-> f.v[1] \div 2,
                transpose |-> (f.v[1] % 2 # 0), table_tick |-> f.v[2],
                synth_params |-> sp.v,
                scale |-> g.v[1], chord |-> chord.v, shift |-> g.v[2],
                swarm |-> g.v[3], width |-> g.v[4], subosc |-> g.v[5]]])))))

\* f holds transpeq .. fine_tune; g holds input, port, channel, bank, program
ExternalInst_from_reader(r, number, synth_callback) ==
    Bind(Reader_read_string(r, 12), LAMBDA name :
    Bind(ReadN(name.r, 5), LAMBDA f :
    Bind(ReadN(f.r, 5), LAMBDA g :
    Bind(ControlChanges(g.r, 4), LAMBDA cc :
    Bind(CallSynth(synth_callback, cc.r, f.v[3], f.v[4], f.v[5]), LAMBDA sp :
        [r |-> sp.r,
         v |-> [kind |-> "External", number |-> number, name |-> name.v,
                eq_number |-> f.v[1] \div 2,
                transpose |-> (f.v[1] % 2 # 0), table_tick |-> f.v[2],
                synth_params |-> sp.v,
                input |-> g.v[1], port |-> g.v[2], channel |-> g.v[3],
                bank |-> g.v[4], program |-> g.v[5],
                cca |-> cc.v[1], ccb |-> cc.v[2], ccc |-> cc.v[3], ccd |-> cc.v[4]]])))))

InstrumentNone == [kind |-> "None"]

\* the match of Instrument::from_reader2: an unknown kind is
\* Err(ParseError("Unsupported instr"))
Variant2(r, k, start_pos, number, ver) ==
    CASE k = 0 -> WavSynth_from_reader(r, number, Callback2)
      [] k = 1 -> MacroSynth_from_reader(r, number, Callback2)
      [] k = 2 -> Sampler_from_reader(r, start_pos, number, Callback2)
      [] k = 3 -> MIDIOut_from_reader(r, number)
      [] k = 4 -> FMSynth_from_reader(r, ver, number, Callback2)
      [] k = 255 -> [r |-> r, v |-> InstrumentNone]
      [] OTHER -> [r |-> Fail(r, "err"), v |-> <<>>]

\* the match of from_reader3 without its 0xFF arm
Variant3_noNoneArm(r, k, start_pos, number, ver) ==
    CASE k = 0 -> WavSynth_from_reader(r, number, Callback3(30))
      [] k = 1 -> MacroSynth_from_reader(r, number, Callback3(30))
      [] k = 2 -> Sampler_from_reader(r, start_pos, number, Callback3(29))
      [] k = 3 -> MIDIOut_from_reader(r, number)
      [] k = 4 -> FMSynth_from_reader(r, ver, number, Callback3(2))
      [] k = 5 -> HyperSynth_from_reader(r, number, Callback3(23))
      [] k = 6 -> ExternalInst_from_reader(r, number, Callback3(22))
      [] OTHER -> [r |-> Fail(r, "panic"), v |-> <<>>]

\* the match of Instrument::from_reader3: an unknown kind is a panic!
Variant3(r, k, start_pos, number, ver) ==
    CASE k = 0 -> WavSynth_from_reader(r, number, Callback3(30))
      [] k = 1 -> MacroSynth_from_reader(r, number, Callback3(30))
      [] k = 2 -> Sampler_from_reader(r, start_pos, number, Callback3(29))
      [] k = 3 -> MIDIOut_from_reader(r, number)
      [] k = 4 -> FMSynth_from_reader(r, ver, number, Callback3(2))
      [] k = 5 -> HyperSynth_from_reader(r, number, Callback3(23))
      [] k = 6 -> ExternalInst_from_reader(r, number, Callback3(22))
      [] k = 255 -> [r |-> r, v |-> InstrumentNone]
      [] OTHER -> [r |-> Fail(r, "panic"), v |-> <<>>]

Instrument_from_reader2(r, number, ver) ==
    Bind(Reader_pos(r), LAMBDA start_pos :
    Bind(Reader_read(r), LAMBDA kind :
    Bind(Variant2(kind.r, kind.v, start_pos, number, ver), LAMBDA instr :
        [r |-> Seek(instr.r, start_pos + INSTRUMENT_MEMORY_SIZE), v |-> instr.v])))

\* from_reader3 with the final set_pos left out
Instrument_from_reader3_noRealign(r, number, ver) ==
    Bind(Reader_pos(r), LAMBDA start_pos :
    Bind(Reader_read(r), LAMBDA kind :
    Bind(Variant3(kind.r, kind.v, start_pos, number, ver), LAMBDA instr :
        [r |-> instr.r, v |-> instr.v])))

Instrument_from_reader3(r, number, ver) ==
    Bind(Reader_pos(r), LAMBDA start_pos :
    Bind(Reader_read(r), LAMBDA kind :
    Bind(Variant3(kind.r, kind.v, start_pos, number, ver), LAMBDA instr :
        [r |-> Seek(instr.r, start_pos + INSTRUMENT_MEMORY_SIZE), v |-> instr.v])))

\* the dispatch of Instrument::read on the decoded version
ReadDispatch(ver) ==
    IF Version_at_least(ver.v, 3, 0)
    THEN Instrument_from_reader3(ver.r, 0, ver.v)
    ELSE Instrument_from_reader2(ver.r, 0, ver.v)

\* Instrument::read with the length test forgetting the version header
Instrument_read_shortCheck(file) ==
    IF Len(file) < INSTRUMENT_MEMORY_SIZE
    THEN [r |-> Fail(Reader_new(file), "err"), v |-> <<>>, ver |-> NoVersion]
    ELSE Bind(Version_from_reader(Reader_new(file)), LAMBDA ver :
         Bind(ReadDispatch(ver), LAMBDA instr :
             [r |-> instr.r, v |-> instr.v, ver |-> ver.v]))

\* Instrument::read: the whole input is read into a fresh Reader; too short an
\* input is Err(ParseError("File is not long enough to be a M8 Instrument"))
Instrument_read(file) ==
    IF Len(file) < INSTRUMENT_MEMORY_SIZE + Version_SIZE
    THEN [r |-> Fail(Reader_new(file), "err"), v |-> <<>>, ver |-> NoVersion]
    ELSE Bind(Version_from_reader(Reader_new(file)), LAMBDA ver :
         Bind(ReadDispatch(ver), LAMBDA instr :
             [r |-> instr.r, v |-> instr.v, ver |-> ver.v]))

----------------------------------------------------------------------------
(* Instrument decoding as a state machine.  The initial state is a fresh   *)
(* Reader, either over an instrument file (Instrument::read consumes it)   *)
(* or over an image holding a run of instrument slots that the caller      *)
(* decodes one after the other with from_reader2 / from_reader3, chosen by *)
(* version.at_least(3, 0) as Instrument::read chooses.                     *)

\* instrument slots in a table image
NumSlots == 2

VersionSamples ==
    {[major |-> 1, minor |-> 3], [major |-> 2, minor |-> 7],
     [major |-> 3, minor |-> 0], [major |-> 4, minor |-> 1]}

\* kind bytes: the seven variants, one unknown to every dispatch, and None
KindSamples == {0, 1, 2, 3, 4, 5, 6, 7, 255}

\* byte filling the rest of a slot: NUL, 'A' (as a mod byte: type 4), 0xFF
\* padding (as a mod byte: type 15)
FillSamples == {0, 65, 255}

Slot(kind, fill) == <<kind>> \o Repeat(fill, INSTRUMENT_MEMORY_SIZE - 1)

RECURSIVE Slots(_, _, _)
Slots(kinds, fill, n) ==
    IF n = 0 THEN <<>> ELSE Slots(kinds, fill, n - 1) \o Slot(kinds[n], fill)

Header(ver) == <<ver.major, ver.minor>>

\* sample paths: "kick.wav" and "a"
PathSamples == {<<107, 105, 99, 107, 46, 119, 97, 118>>, <<97>>}

\* a Sampler slot whose sample_path field holds path and a NUL behind it
SamplerSlot(fill, path) ==
    [i \in 1..INSTRUMENT_MEMORY_SIZE |->
        IF i = 1 THEN 2
        ELSE IF i > SAMPLE_PATH_OFFSET /\ i <= SAMPLE_PATH_OFFSET + Len(path)
             THEN path[i - SAMPLE_PATH_OFFSET]
        ELSE IF i = SAMPLE_PATH_OFFSET + Len(path) + 1 THEN 0
        ELSE fill]

\* bytes of a slot that tell its offsets apart: offset i holds i % 96, which
\* is ASCII and, as the first byte of a modulator, a known type
RampSlot(kind) ==
    [i \in 1..INSTRUMENT_MEMORY_SIZE |-> IF i = 1 THEN kind ELSE (i - 1) % 96]

\* n such slots of one kind in a row
RampSlots(kind, n) ==
    [i \in 1..(n * INSTRUMENT_MEMORY_SIZE) |->
        RampSlot(kind)[((i - 1) % INSTRUMENT_MEMORY_SIZE) + 1]]

\* n Sampler slots in a row
SamplerSlots(fill, path, n) ==
    [i \in 1..(n * INSTRUMENT_MEMORY_SIZE) |->
        SamplerSlot(fill, path)[((i - 1) % INSTRUMENT_MEMORY_SIZE) + 1]]

\* lengths of the instrument files: empty, cut inside the header, one byte
\* short, exact, one byte long
FileLens ==
    {0, 1, INSTRUMENT_MEMORY_SIZE + Version_SIZE - 1,
     INSTRUMENT_MEMORY_SIZE + Version_SIZE, INSTRUMENT_MEMORY_SIZE + Version_SIZE + 1}

Files ==
    {SubSeq(Header(v) \o Slot(k, f) \o <<f>>, 1, n) :
        v \in VersionSamples, k \in KindSamples, f \in FillSamples, n \in FileLens}

\* positions at which a slot table starts in its image
TableStarts == {0, Version_SIZE}

ResultOf(res) ==
    CASE res.r.st = "ok"  -> [tag |-> "Ok", val |-> res.v]
      [] res.r.st = "err" -> [tag |-> "Err"]
      [] OTHER            -> [tag |-> "Panic"]

StatusAfter(res) ==
    CASE res.r.st = "ok"  -> "run"
      [] res.r.st = "err" -> "err"
      [] OTHER            -> "panic"

\* one slot decoded by the caller's loop over the instrument table
SlotStep(op, res) ==
    /\ status = "run"
    /\ version # NoVersion
    /\ call.op \in {"none", "from_reader2", "from_reader3"}
    /\ slot_number < NumSlots
    /\ position' = res.r.position
    /\ status' = StatusAfter(res)
    /\ call' = [op |-> op, at |-> position, arg |-> <<slot_number, version>>,
                ret |-> ResultOf(res), hi |-> res.r.hi]
    /\ slot_number' = IF res.r.st = "ok" THEN slot_number + 1 ELSE slot_number
    /\ UNCHANGED <<buffer, wbuffer, version, table_start, cell, mappings>>

FromReader2 ==
    /\ ~Version_at_least(version, 3, 0)
    /\ SlotStep("from_reader2", Instrument_from_reader2(Cur, slot_number, version))

FromReader3 ==
    /\ Version_at_least(version, 3, 0)
    /\ SlotStep("from_reader3", Instrument_from_reader3(Cur, slot_number, version))

\* Instrument::read over the bytes of the fresh Reader
InstrumentRead ==
    /\ status = "run"
    /\ call.op = "none"
    /\ position = 0
    /\ LET res == Instrument_read(buffer)
       IN  /\ position' = res.r.position
           /\ status' = StatusAfter(res)
           /\ call' = [op |-> "Instrument_read", at |-> 0, arg |-> <<buffer>>,
                       ret |-> ResultOf(res), hi |-> res.r.hi]
           /\ version' = res.ver
           /\ table_start' = IF res.r.st = "ok" THEN Version_SIZE ELSE table_start
           /\ slot_number' = IF res.r.st = "ok" THEN 1 ELSE slot_number
    /\ UNCHANGED <<buffer, wbuffer, cell, mappings>>

InitInstr ==
    /\ \/ /\ buffer \in Files
          /\ position = 0
          /\ table_start = 0
          /\ version = NoVersion
       \/ \E v \in VersionSamples, p \in TableStarts, f \in FillSamples,
             kinds \in [1..NumSlots -> KindSamples] :
              /\ buffer = SubSeq(Header(v), 1, p) \o Slots(kinds, f, NumSlots)
              /\ position = p
              /\ table_start = p
              /\ version = v
       \/ \E v \in VersionSamples, p \in TableStarts, f \in FillSamples,
             path \in PathSamples :
              /\ buffer = SubSeq(Header(v), 1, p) \o SamplerSlots(f, path, NumSlots)
              /\ position = p
              /\ table_start = p
              /\ version = v
       \/ \E v \in VersionSamples, p \in TableStarts, kind \in 0..6 :
              /\ buffer = SubSeq(Header(v), 1, p) \o RampSlots(kind, NumSlots)
              /\ position = p
              /\ table_start = p
              /\ version = v
    /\ slot_number = 0
    /\ wbuffer = <<>>
    /\ status = "run"
    /\ call = NoCall
    /\ cell = NoCell
    /\ mappings = NoMappings

NextInstr == FromReader2 \/ FromReader3 \/ InstrumentRead

SpecInstr == InitInstr /\ [][NextInstr]_vars

----------------------------------------------------------------------------
(* instruments/fmsynth.rs: the FM synth encoder and decoder.  Writer of    *)
(* writer.rs, and TranspEq and SynthParams of instruments/common.rs, are   *)
(* modelled from the format specification: write appends a byte,           *)
(* write_string emits the text cut or NUL-padded to n bytes, the transpeq  *)
(* byte packs transpose in bit 0 and the EQ number above it from 3.0 on,   *)
(* and SynthParams is written as it is read.                               *)

\* number of FMWave variants, SIN .. W45
FMWave_COUNT == 77

FM_ALGO_STRINGS ==
    <<"A>B>C>D", "[A+B]>C>D", "[A>B+C]>D", "[A>B+A>C]>D", "[A+B+C]>D",
      "[A>B>C]+D", "[A>B>C]+[A>B>D]", "[A>B]+[C>D]", "[A>B]+[A>C]+[A>D]",
      "[A>B]+[A>C]+D", "[A>B]+C+D", "A+B+C+D">>

\* impl TryFrom<u8> for FmAlgo
FmAlgo_try_from(value) ==
    IF value < Len(FM_ALGO_STRINGS)
    THEN [ok |-> TRUE, v |-> value]
    ELSE [ok |-> FALSE, v |-> 0]

\* FmAlgo::id
FmAlgo_id(self) == self

\* FmAlgo::str: the index panics when the id is beyond the table
FmAlgo_str(self) ==
    IF FmAlgo_id(self) < Len(FM_ALGO_STRINGS)
    THEN [st |-> "ok", v |-> FM_ALGO_STRINGS[FmAlgo_id(self) + 1]]
    ELSE [st |-> "panic", v |-> ""]

\* FMWave::try_from accepting the id one past the last variant
FMWave_try_from_onePast(wav_code) ==
    IF wav_code <= FMWave_COUNT
    THEN [ok |-> TRUE, v |-> wav_code]
    ELSE [ok |-> FALSE, v |-> 0]

\* FMWave::try_from (TryFromPrimitive): the ids are 0 .. FMWave_COUNT - 1
FMWave_try_from(wav_code) ==
    IF wav_code < FMWave_COUNT
    THEN [ok |-> TRUE, v |-> wav_code]
    ELSE [ok |-> FALSE, v |-> 0]

FMSynth_MOD_OFFSET == 2

writer_Writer_write(w, v) == [w EXCEPT !.buffer = Append(w.buffer, v)]

writer_Writer_write_string(w, str, n) ==
    [w EXCEPT !.buffer = w.buffer \o [i \in 1..n |-> IF i <= Len(str) THEN str[i] ELSE 0]]

\* a run of w.write(b) calls, one per byte of bytes
WriteAll(w, bytes) == [w EXCEPT !.buffer = w.buffer \o bytes]

TranspEq_from(ver, transpose, eq) ==
    [transpose |-> transpose, eq |-> IF Version_at_least(ver, 3, 0) THEN eq ELSE 0]

\* impl Into<u8> for TranspEq
TranspEq_into(te) == (te.eq * 2 + (IF te.transpose THEN 1 ELSE 0)) % 256

TranspEq_from_version(ver, b) ==
    IF Version_at_least(ver, 3, 0)
    THEN [transpose |-> (b % 2 # 0), eq |-> b \div 2]
    ELSE [transpose |-> (b # 0), eq |-> 0]

\* the six bytes of a modulator in the 3.0 layout: (type << 4) | dest first
Mod_write(m) ==
    CASE m.kind = "AHDEnv" ->
            <<m.dest, m.amount, m.attack, m.hold, m.decay, 0>>
      [] m.kind = "ADSREnv" ->
            <<16 + m.dest, m.amount, m.attack, m.decay, m.sustain, m.release>>
      [] m.kind = "DrumEnv" ->
            <<32 + m.dest, m.amount, m.peak, m.body, m.decay, 0>>
      [] m.kind = "LFO" ->
            <<48 + m.dest, m.amount, m.shape, m.trigger_mode, m.freq, 0>>
      [] m.kind = "TrigEnv" ->
            <<64 + m.dest, m.amount, m.attack, m.hold, m.decay, m.src>>
      [] OTHER ->
            <<80 + m.dest, m.amount, m.src, m.lval, m.hval, 0>>

\* the six bytes of a modulator in the layout before 3.0, the type being
\* implicit in the position
Mod_write2(m) ==
    IF m.kind = "AHDEnv"
    THEN <<m.dest, m.amount, m.attack, m.hold, m.decay, 0>>
    ELSE <<m.shape, m.dest, m.trigger_mode, m.freq, m.amount, 0>>

\* SynthParams::write: filter, amp/limit and mixer, then the modulators; from
\* 3.0 on these follow a gap of mod_offset zero bytes
SynthParams_write(self, ver, w, mod_offset) ==
    Bind(WriteAll(w, <<self.filter_type, self.filter_cutoff, self.filter_res,
                       self.amp, self.limit,
                       self.mixer_pan, self.mixer_dry, self.mixer_chorus,
                       self.mixer_delay, self.mixer_reverb>>), LAMBDA w1 :
        IF Version_at_least(ver, 3, 0)
        THEN WriteAll(w1, Repeat(0, mod_offset)
                          \o Mod_write(self.mods[1]) \o Mod_write(self.mods[2])
                          \o Mod_write(self.mods[3]) \o Mod_write(self.mods[4]))
        ELSE WriteAll(w1, Mod_write2(self.mods[1]) \o Mod_write2(self.mods[2])
                          \o Mod_write2(self.mods[3]) \o Mod_write2(self.mods[4])))

\* SynthParams::from_reader2 / from_reader3 of instruments/common.rs: the
\* decoders above, the value also carrying the EQ number
WithEq(sp, eq) == [r |-> sp.r, v |-> [associated_eq |-> eq] @@ sp.v]

common_SynthParams_from_reader2(r, volume, pitch, fine_tune) ==
    WithEq(SynthParams_from_reader2(r, volume, pitch, fine_tune), 0)

common_SynthParams_from_reader3(ver, r, volume, pitch, fine_tune, eq, mod_offset) ==
    WithEq(SynthParams_from_reader3(r, volume, pitch, fine_tune, mod_offset), eq)

\* the ratio loop writing ratio_fine before ratio
RatioBytes_fineFirst(operators) ==
    [i \in 1..8 |-> IF i % 2 = 1 THEN operators[(i + 1) \div 2].ratio_fine
                    ELSE operators[i \div 2].ratio]

\* (ratio, ratio_fine) of the four operators, in wire order
RatioBytes(operators) ==
    [i \in 1..8 |-> IF i % 2 = 1 THEN operators[(i + 1) \div 2].ratio
                    ELSE operators[i \div 2].ratio_fine]

\* (level, feedback) of the four operators, in wire order
LevelBytes(operators) ==
    [i \in 1..8 |-> IF i % 2 = 1 THEN operators[(i + 1) \div 2].level
                    ELSE operators[i \div 2].feedback]

\* FMSynth::write: the four shape bytes are written under every version
fmsynth_FMSynth_write(self, ver, w) ==
    Bind(writer_Writer_write_string(w, self.name, 12), LAMBDA w1 :
    Bind(writer_Writer_write(w1,
            TranspEq_into(TranspEq_from(ver, self.transpose,
                                        self.synth_params.associated_eq))), LAMBDA w2 :
    Bind(WriteAll(w2, <<self.table_tick, self.synth_params.volume,
                        self.synth_params.pitch, self.synth_params.fine_tune,
                        self.algo>>), LAMBDA w3 :
    Bind(WriteAll(w3, [i \in 1..4 |-> self.operators[i].shape]), LAMBDA w4 :
    Bind(WriteAll(w4, RatioBytes(self.operators)), LAMBDA w5 :
    Bind(WriteAll(w5, LevelBytes(self.operators)), LAMBDA w6 :
    Bind(WriteAll(w6, [i \in 1..4 |-> self.operators[i].mod_a]), LAMBDA w7 :
    Bind(WriteAll(w7, [i \in 1..4 |-> self.operators[i].mod_b]), LAMBDA w8 :
    Bind(WriteAll(w8, <<self.mod1, self.mod2, self.mod3, self.mod4>>), LAMBDA w9 :
        SynthParams_write(self.synth_params, ver, w9, FMSynth_MOD_OFFSET))))))))))

\* the loop over the shape bytes: the first id FMWave::try_from rejects ends
\* the call with Err(ParseError("Invalid fm wave .."))
ReadShapes(r) ==
    Bind(ReadN(r, 4), LAMBDA f :
        LET bad == {i \in 1..4 : ~FMWave_try_from(f.v[i]).ok}
        IN  IF f.r.st # "ok" \/ bad = {} THEN f
            ELSE LET i == CHOOSE j \in bad : \A k \in bad : j <= k
                 IN  [r |-> [r EXCEPT !.st = "err",
                                      !.position = r.position + i,
                                      !.hi = Max(r.hi, r.position + i)],
                      v |-> f.v])

\* FMSynth::from_reader: f holds table_tick, volume, pitch, fine_tune, algo
fmsynth_FMSynth_from_reader(ver, r, number, version_) ==
    Bind(Reader_read_string(r, 12), LAMBDA name :
    Bind(Reader_read(name.r), LAMBDA te :
    Bind(TranspEq_from_version(ver, te.v), LAMBDA transp_eq :
    Bind(ReadN(te.r, 5), LAMBDA f :
    Bind(IF Version_at_least(version_, 1, 4) THEN ReadShapes(f.r)
         ELSE [r |-> f.r, v |-> <<0, 0, 0, 0>>], LAMBDA sh :
    Bind(ReadN(sh.r, 8), LAMBDA ra :
    Bind(ReadN(ra.r, 8), LAMBDA lv :
    Bind(ReadN(lv.r, 4), LAMBDA ma :
    Bind(ReadN(ma.r, 4), LAMBDA mb :
    Bind(ReadN(mb.r, 4), LAMBDA md :
    Bind(IF Version_at_least(version_, 3, 0)
         THEN common_SynthParams_from_reader3(ver, md.r, f.v[2], f.v[3], f.v[4],
                                              transp_eq.eq, FMSynth_MOD_OFFSET)
         ELSE common_SynthParams_from_reader2(md.r, f.v[2], f.v[3], f.v[4]), LAMBDA sp :
        [r |-> sp.r,
         v |-> [number |-> number, name |-> name.v,
                transpose |-> transp_eq.transpose, table_tick |-> f.v[1],
                synth_params |-> sp.v,
                algo |-> f.v[5], operators |-> OperatorsOf(sh.v, ra.v, lv.v, ma.v, mb.v),
                mod1 |-> md.v[1], mod2 |-> md.v[2], mod3 |-> md.v[3], mod4 |-> md.v[4]]])))))))))))

----------------------------------------------------------------------------
(* The FM synth codec as a state machine: an FMSynth is written to a fresh *)
(* Writer under a version, then the bytes written are read back under the  *)
(* same version.                                                           *)

FmVersionSamples ==
    {[major |-> 1, minor |-> 3], [major |-> 1, minor |-> 4],
     [major |-> 1, minor |-> 5], [major |-> 2, minor |-> 7],
     [major |-> 3, minor |-> 0]}

\* operators with ratio 1, 2, 3, 4 and every other byte zero
RatioOperators == [i \in 1..4 |-> [Operator_default EXCEPT !.ratio = i]]

\* operators whose bytes all differ, the default operators, and operators
\* that differ in their ratio alone
OperatorSamples ==
    {[i \in 1..4 |-> Operator_default],
     RatioOperators,
     [i \in 1..4 |-> [Operator_default EXCEPT
                         !.shape = i, !.ratio = 10 + i, !.ratio_fine = 20 + i,
                         !.level = 30 + i, !.feedback = 40 + i,
                         !.mod_a = 50 + i, !.mod_b = 60 + i]]}

\* an LFO with every field 0
LFO_zero ==
    [kind |-> "LFO", shape |-> 0, dest |-> 0, trigger_mode |-> 0, freq |-> 0, amount |-> 0]

\* modulators in the order both layouts can hold: AHD, AHD, LFO, LFO
ModSamples ==
    {<<AHDEnv_default, AHDEnv_default, LFO_zero, LFO_zero>>,
     <<[AHDEnv_default EXCEPT !.dest = 1, !.amount = 71, !.attack = 72,
                              !.hold = 73, !.decay = 74],
       AHDEnv_default,
       [LFO_zero EXCEPT !.dest = 2, !.amount = 81, !.shape = 82,
                           !.trigger_mode = 83, !.freq = 84],
       LFO_zero>>}

\* names shorter than their field, free of 0x00 and 0xFF: "" and "FM"
NameSamples == {<<>>, <<70, 77>>}

\* EQ numbers a synth can carry under ver: none before 3.0
EqSamples(ver) == IF Version_at_least(ver, 3, 0) THEN {0, 5} ELSE {0}

FmSynthSamples(ver) ==
    {[number |-> 0, name |-> n, transpose |-> t, table_tick |-> 1,
      synth_params |->
          [associated_eq |-> e] @@
          SynthParamsOf(2, 3, 4, <<90, 91, 92, 93, 94, 95, 96, 97, 98, 99>>, m),
      algo |-> 5, operators |-> o,
      mod1 |-> 6, mod2 |-> 7, mod3 |-> 8, mod4 |-> 9] :
        n \in NameSamples, t \in BOOLEAN, e \in EqSamples(ver),
        o \in OperatorSamples, m \in ModSamples}

\* FMSynth::write into a fresh Writer
FmWrite ==
    /\ status = "run"
    /\ call.op = "none"
    /\ \E synth \in FmSynthSamples(version) :
          LET w == fmsynth_FMSynth_write(synth, version, CurW)
          IN  /\ wbuffer' = w.buffer
              /\ status' = StatusOf(w.st)
              /\ call' = [op |-> "FMSynth_write", at |-> Len(wbuffer),
                          arg |-> <<synth>>, ret |-> <<>>]
    /\ UNCHANGED <<buffer, position, version, slot_number, table_start, cell, mappings>>

\* FMSynth::from_reader over a Reader on the bytes just written
FmFromReader ==
    /\ status = "run"
    /\ call.op = "FMSynth_write"
    /\ LET res == fmsynth_FMSynth_from_reader(version, Reader_new(wbuffer),
                                              call.arg[1].number, version)
       IN  /\ buffer' = wbuffer
           /\ position' = res.r.position
           /\ status' = StatusAfter(res)
           /\ call' = [op |-> "FMSynth_from_reader", at |-> 0,
                       arg |-> call.arg, ret |-> ResultOf(res)]
    /\ UNCHANGED <<wbuffer, version, slot_number, table_start, cell, mappings>>

InitFm ==
    /\ version \in FmVersionSamples
    /\ buffer = <<>>
    /\ position = 0
    /\ wbuffer = <<>>
    /\ status = "run"
    /\ call = NoCall
    /\ slot_number = 0
    /\ table_start = 0
    /\ cell = NoCell
    /\ mappings = NoMappings

NextFm == FmWrite \/ FmFromReader

SpecFm == InitFm /\ [][NextFm]_vars

----------------------------------------------------------------------------
(* fx.rs: the command-name tables, FxCommands and the FX cell codec.       *)

SEQ_COMMAND_V2 ==
    <<"ARP", "CHA", "DEL", "GRV", "HOP", "KIL", "RAN", "RET", "REP", "NTH",
      "PSL", "PSN", "PVB", "PVX", "SCA", "SCG", "SED", "SNG", "TBL", "THO",
      "TIC", "TPO", "TSP">>

FX_MIXER_COMMAND_V2 ==
    <<"VMV", "XCM", "XCF", "XCW", "XCR", "XDT", "XDF", "XDW", "XDR", "XRS",
      "XRD", "XRM", "XRF", "XRW", "XRZ", "VCH", "VCD", "VRE", "VT1", "VT2",
      "VT3", "VT4", "VT5", "VT6", "VT7", "VT8", "DJF", "IVO", "ICH", "IDE",
      "IRE", "IV2", "IC2", "ID2", "IR2", "USB">>

SEQ_COMMAND_V3 ==
    <<"ARP", "CHA", "DEL", "GRV", "HOP", "KIL", "RND", "RNL", "RET", "REP",
      "RMX", "NTH", "PSL", "PBN", "PVB", "PVX", "SCA", "SCG", "SED", "SNG",
      "TBL", "THO", "TIC", "TBX", "TPO", "TSP", "OFF">>

FX_MIXER_COMMAND_V3 ==
    <<"VMV", "XCM", "XCF", "XCW", "XCR", "XDT", "XDF", "XDW", "XDR", "XRS",
      "XRD", "XRM", "XRF", "XRW", "XRZ", "VCH", "VCD", "VRE", "VT1", "VT2",
      "VT3", "VT4", "VT5", "VT6", "VT7", "VT8", "DJF", "IVO", "ICH", "IDE",
      "IRE", "IV2", "IC2", "ID2", "IR2", "USB">>

FX_MIXER_COMMAND_V4 ==
    <<"VMV", "XCM", "XCF", "XCW", "XCR", "XDT", "XDF", "XDW", "XDR", "XRS",
      "XRD", "XRM", "XRF", "XRW", "XRZ", "VCH", "VDE", "VRE", "VT1", "VT2",
      "VT3", "VT4", "VT5", "VT6", "VT7", "VT8", "DJC", "VIN", "ICH", "IDE",
      "IRE", "VI2", "IC2", "ID2", "IR2", "USB", "DJR", "DJT", "EQM", "EQI",
      "INS", "RTO", "ARC", "GGR", "NXT">>

COMMANDS_V2 == SEQ_COMMAND_V2 \o FX_MIXER_COMMAND_V2

COMMANDS_V3 == SEQ_COMMAND_V3 \o FX_MIXER_COMMAND_V3

COMMANDS_V4 == SEQ_COMMAND_V3 \o FX_MIXER_COMMAND_V4

\* FX::fx_command_names with the 4.0 test left out
FX_fx_command_names_noV4(ver) ==
    IF Version_at_least(ver, 3, 0) THEN [commands |-> COMMANDS_V3]
    ELSE [commands |-> COMMANDS_V2]

FX_fx_command_names(ver) ==
    IF Version_at_least(ver, 4, 0) THEN [commands |-> COMMANDS_V4]
    ELSE IF Version_at_least(ver, 3, 0) THEN [commands |-> COMMANDS_V3]
    ELSE [commands |-> COMMANDS_V2]

\* FxCommands::try_render: Option<&str>
FxCommands_try_render(self, cmd) ==
    IF cmd < Len(self.commands)
    THEN [tag |-> "Some", val |-> self.commands[cmd + 1]]
    ELSE [tag |-> "None"]

\* FX::from_reader reading the value before the command
FX_from_reader_valueFirst(r) ==
    Bind(Reader_read(r), LAMBDA value :
    Bind(Reader_read(value.r), LAMBDA command :
        [r |-> command.r, v |-> [command |-> command.v, value |-> value.v]]))

FX_from_reader(r) ==
    Bind(Reader_read(r), LAMBDA command :
    Bind(Reader_read(command.r), LAMBDA value :
        [r |-> value.r, v |-> [command |-> command.v, value |-> value.v]]))

FX_write(self, w) == writer_Writer_write(writer_Writer_write(w, self.command), self.value)

FX_is_empty(self) == self.command = 255

----------------------------------------------------------------------------
(* The command tables as a state machine: a caller asks for the table of a *)
(* version, then renders a command id through it.                          *)

\* versions on both sides of the 3.0 and 4.0 thresholds
FxVersionSamples == [major : 1..5, minor : {0, 1, 9}]

FxCommandNames ==
    /\ status = "run"
    /\ call.op = "none"
    /\ \E ver \in FxVersionSamples :
          /\ version' = ver
          /\ call' = [op |-> "fx_command_names", at |-> 0, arg |-> <<ver>>,
                      ret |-> FX_fx_command_names(ver)]
    /\ UNCHANGED <<buffer, position, wbuffer, status, slot_number, table_start,
                   cell, mappings>>

TryRender ==
    /\ status = "run"
    /\ call.op = "fx_command_names"
    /\ \E cmd \in Byte :
          call' = [op |-> "try_render", at |-> 0, arg |-> <<call.ret, cmd>>,
                   ret |-> FxCommands_try_render(call.ret, cmd)]
    /\ UNCHANGED <<buffer, position, wbuffer, status, version, slot_number,
                   table_start, cell, mappings>>

InitNames ==
    /\ buffer = <<>>
    /\ position = 0
    /\ wbuffer = <<>>
    /\ status = "run"
    /\ call = NoCall
    /\ version = NoVersion
    /\ slot_number = 0
    /\ table_start = 0
    /\ cell = NoCell
    /\ mappings = NoMappings

NextNames == FxCommandNames \/ TryRender

SpecNames == InitNames /\ [][NextNames]_vars

----------------------------------------------------------------------------
(* The FX cell codec as a state machine: cells are written one after the   *)
(* other to a Writer, each one read back from the bytes written and tested *)
(* with is_empty before the next is written.                               *)

\* cells written in a row
MaxCells == 2

FxCellSamples == [command : {0, 1, 255}, value : {0, 7, 255}]

FxWrite ==
    /\ status = "run"
    /\ call.op \in {"none", "FX_from_reader", "is_empty"}
    /\ Len(wbuffer) < 2 * MaxCells
    /\ \E c \in FxCellSamples :
          LET w == FX_write(c, CurW)
          IN  /\ wbuffer' = w.buffer
              /\ call' = [op |-> "FX_write", at |-> Len(wbuffer), arg |-> <<c>>,
                          ret |-> <<>>]
    /\ UNCHANGED <<buffer, position, status, version, slot_number, table_start,
                   cell, mappings>>

\* FX::from_reader, the Reader standing on the cell just written
FxFromReader ==
    /\ status = "run"
    /\ call.op = "FX_write"
    /\ LET res == FX_from_reader([buffer |-> wbuffer, position |-> position,
                                  st |-> "ok", hi |-> 0])
       IN  /\ buffer' = wbuffer
           /\ position' = res.r.position
           /\ status' = StatusAfter(res)
           /\ cell' = IF res.r.st = "ok" THEN res.v ELSE cell
           /\ call' = [op |-> "FX_from_reader", at |-> position, arg |-> call.arg,
                       ret |-> ResultOf(res)]
    /\ UNCHANGED <<wbuffer, version, slot_number, table_start, mappings>>

FxIsEmpty ==
    /\ status = "run"
    /\ call.op = "FX_from_reader"
    /\ call' = [op |-> "is_empty", at |-> call.at, arg |-> <<cell>>,
                ret |-> FX_is_empty(cell)]
    /\ UNCHANGED <<buffer, position, wbuffer, status, version, slot_number,
                   table_start, cell, mappings>>

NextFxCodec == FxWrite \/ FxFromReader \/ FxIsEmpty

SpecFxCodec == InitNames /\ [][NextFxCodec]_vars

----------------------------------------------------------------------------
(* Modulator decoding as a state machine: the Reader stands on a run of    *)
(* 6-byte modulator records, which the caller decodes one after the other  *)
(* with Mod::from_reader, as SynthParams::from_reader3 does.               *)

\* modulator records in a row
MaxMods == 4

\* type nibbles in the order the records of a run cycle through them: the six
\* known types and one unknown
ModTypeCycle == <<1, 2, 3, 0, 4, 5, 15>>

ModDestSamples == {0, 10, 15}

\* the five bytes behind the first byte of a record
ModPayloadSamples == {<<32, 0, 64, 0, 0>>, <<1, 2, 3, 4, 5>>}

\* record i of the run that starts at index t0 of the cycle
ModRecord(t0, i, dest, payload) ==
    <<ModTypeCycle[((t0 + i - 2) % Len(ModTypeCycle)) + 1] * 16 + dest>> \o payload

RECURSIVE ModRecords(_, _, _, _)
ModRecords(t0, n, dest, payload) ==
    IF n = 0 THEN <<>>
    ELSE ModRecords(t0, n - 1, dest, payload) \o ModRecord(t0, n, dest, payload)

ModFromReader ==
    /\ status = "run"
    /\ slot_number < MaxMods
    /\ LET res == Mod_from_reader(Cur)
       IN  /\ position' = res.r.position
           /\ status' = StatusAfter(res)
           /\ call' = [op |-> "Mod_from_reader", at |-> position, arg |-> <<>>,
                       ret |-> ResultOf(res)]
           /\ slot_number' = IF res.r.st = "ok" THEN slot_number + 1 ELSE slot_number
    /\ UNCHANGED <<buffer, wbuffer, version, table_start, cell, mappings>>

InitMod ==
    /\ \E t0 \in 1..Len(ModTypeCycle), dest \in ModDestSamples,
          payload \in ModPayloadSamples, p \in {0, 1} :
          /\ buffer = Repeat(255, p) \o ModRecords(t0, MaxMods, dest, payload)
          /\ position = p
          /\ table_start = p
    /\ wbuffer = <<>>
    /\ status = "run"
    /\ call = NoCall
    /\ version = NoVersion
    /\ slot_number = 0
    /\ cell = NoCell
    /\ mappings = NoMappings

NextMod == ModFromReader

SpecMod == InitMod /\ [][NextMod]_vars

----------------------------------------------------------------------------
(* FM synth decoding as a state machine: the Reader stands on the bytes of *)
(* an FM synth (behind its kind byte), FMSynth::from_reader decodes them   *)
(* and the caller asks the decoded algo for its name.                      *)

\* algo bytes: the first and the last of the table, and two beyond it
AlgoSamples == {0, 11, 12, 255}

\* the four shape bytes: SIN; the last variant W45 (0x4C) among others; the
\* bytes 0x4D, 0x4E and 0xFF in different places
ShapeSamples ==
    {<<0, 0, 0, 0>>, <<0, 76, 1, 2>>, <<77, 0, 0, 0>>, <<0, 0, 78, 0>>,
     <<0, 0, 0, 255>>, <<1, 77, 78, 255>>}

\* the bytes of an FM synth: name and prefix, algo, four shape bytes, the rest
FmImage(algo, shapes, fill) ==
    Repeat(fill, 12 + 5) \o <<algo>> \o shapes \o Repeat(fill, 8 + 8 + 4 + 4 + 4 + 10 + 2 + 24)

FmDecode ==
    /\ status = "run"
    /\ call.op = "none"
    /\ LET res == fmsynth_FMSynth_from_reader(version, Cur, slot_number, version)
       IN  /\ position' = res.r.position
           /\ status' = StatusAfter(res)
           /\ call' = [op |-> "FMSynth_from_reader", at |-> position,
                       arg |-> <<version, slot_number>>, ret |-> ResultOf(res)]
    /\ UNCHANGED <<buffer, wbuffer, version, slot_number, table_start, cell, mappings>>

\* FmAlgo::str on the algo of the FMSynth just decoded
FmAlgoStr ==
    /\ status = "run"
    /\ call.op = "FMSynth_from_reader"
    /\ LET res == FmAlgo_str(call.ret.val.algo)
       IN  /\ status' = StatusOf(res.st)
           /\ call' = [op |-> "FmAlgo_str", at |-> call.at,
                       arg |-> <<call.ret.val.algo>>, ret |-> res.v]
    /\ UNCHANGED <<buffer, position, wbuffer, version, slot_number, table_start,
                   cell, mappings>>

InitFmDecode ==
    /\ version \in FmVersionSamples
    /\ \E algo \in AlgoSamples, shapes \in ShapeSamples, fill \in {0, 65}, p \in {0, 1} :
          /\ buffer = Repeat(4, p) \o FmImage(algo, shapes, fill)
          /\ position = p
          /\ table_start = p
    /\ wbuffer = <<>>
    /\ status = "run"
    /\ call = NoCall
    /\ slot_number = 0
    /\ cell = NoCell
    /\ mappings = NoMappings

NextFmDecode == FmDecode \/ FmAlgoStr

SpecFmDecode == InitFmDecode /\ [][NextFmDecode]_vars

----------------------------------------------------------------------------
(* instruments/hypersynth.rs: the HyperSynth encoder and decoder.  As for  *)
(* the FM synth, Writer, TranspEq and SynthParams::write are modelled from *)
(* the format specification; a HyperSynth exists from 3.0 on only, so its  *)
(* SynthParams are written and read in the 3.0 layout.                     *)

HyperSynth_MOD_OFFSET == 23

\* impl From<u8> for TranspEq
TranspEq_from_u8(b) == [transpose |-> (b % 2 # 0), eq |-> b \div 2]

\* SynthParams::write(w, mod_offset)
SynthParams_write3(self, w, mod_offset) ==
    SynthParams_write(self, [major |-> 3, minor |-> 0], w, mod_offset)

\* the bytes of the chords: 0xFF, then the six keys, for each chord
ChordBytes(chords) ==
    [i \in 1..(7 * Len(chords)) |->
        IF i % 7 = 1 THEN 255 ELSE chords[((i - 1) \div 7) + 1][((i - 1) % 7)]]

hypersynth_HyperSynth_write(self, w) ==
    Bind(writer_Writer_write_string(w, self.name, 12), LAMBDA w1 :
    Bind(WriteAll(w1, <<TranspEq_into(self.transp_eq), self.table_tick,
                        self.synth_params.volume, self.synth_params.pitch,
                        self.synth_params.fine_tune>>), LAMBDA w2 :
    Bind(WriteAll(w2, self.default_chord), LAMBDA w3 :
    Bind(WriteAll(w3, <<self.scale, self.shift, self.swarm, self.width,
                        self.subosc>>), LAMBDA w4 :
    Bind(SynthParams_write3(self.synth_params, w4, HyperSynth_MOD_OFFSET), LAMBDA w5 :
        WriteAll(w5, ChordBytes(self.chords)))))))

\* HyperSynth::load_chord reading the six keys from the padding byte on
HyperSynth_load_chord_noPadding(r) ==
    Bind(ReadN(r, 6), LAMBDA keys :
    Bind(Reader_read(keys.r), LAMBDA last :
        [r |-> last.r, v |-> keys.v]))

\* HyperSynth::load_chord: one byte is read and dropped, then the six keys
HyperSynth_load_chord(r) ==
    Bind(Reader_read(r), LAMBDA padding :
    Bind(ReadN(padding.r, 6), LAMBDA keys :
        [r |-> keys.r, v |-> keys.v]))

\* arr![HyperSynth::load_chord(reader); n]
RECURSIVE LoadChords(_, _)
LoadChords(r, n) ==
    IF n = 0 THEN [r |-> r, v |-> <<>>]
    ELSE Bind(LoadChords(r, n - 1), LAMBDA prev :
         Bind(HyperSynth_load_chord(prev.r), LAMBDA chord :
             [r |-> chord.r, v |-> Append(prev.v, chord.v)]))

\* f holds table_tick, volume, pitch, fine_tune; g holds scale .. subosc
hypersynth_HyperSynth_from_reader(r, number) ==
    Bind(Reader_read_string(r, 12), LAMBDA name :
    Bind(Reader_read(name.r), LAMBDA te :
    Bind(ReadN(te.r, 4), LAMBDA f :
    Bind(ReadN(f.r, 7), LAMBDA default_chord :
    Bind(ReadN(default_chord.r, 5), LAMBDA g :
    Bind(SynthParams_from_reader3(g.r, f.v[2], f.v[3], f.v[4],
                                  HyperSynth_MOD_OFFSET), LAMBDA sp :
    Bind(LoadChords(sp.r, 16), LAMBDA chords :
        [r |-> chords.r,
         v |-> [number |-> number, name |-> name.v,
                transp_eq |-> TranspEq_from_u8(te.v), table_tick |-> f.v[1],
                synth_params |-> sp.v,
                scale |-> g.v[1], default_chord |-> default_chord.v,
                shift |-> g.v[2], swarm |-> g.v[3], width |-> g.v[4],
                subosc |-> g.v[5],
                chords |-> chords.v]])))))))

----------------------------------------------------------------------------
(* The HyperSynth codec as a state machine: a HyperSynth is written to a   *)
(* fresh Writer; the padding bytes of its chords may then be overwritten,  *)
(* as in a file of another origin; the bytes are read back.                *)

\* sixteen chords of six keys: all keys different, all 0, all 0xFF
ChordSamples ==
    {[i \in 1..16 |-> [j \in 1..6 |-> 6 * i + j]],
     [i \in 1..16 |-> [j \in 1..6 |-> 0]],
     [i \in 1..16 |-> [j \in 1..6 |-> 255]]}

\* modulators as a 3.0 file holds them
HyperModSamples ==
    <<AHDEnv_default,
      [kind |-> "ADSREnv", dest |-> 3, amount |-> 71, attack |-> 72, decay |-> 73,
       sustain |-> 74, release |-> 75],
      [LFO_zero EXCEPT !.dest = 2, !.amount = 81],
      [kind |-> "TrackingEnv", dest |-> 4, amount |-> 91, src |-> 92, lval |-> 93,
       hval |-> 94]>>

HyperSynthSamples ==
    {[number |-> 0, name |-> n, transp_eq |-> [transpose |-> t, eq |-> e],
      table_tick |-> 1,
      synth_params |->
          SynthParamsOf(2, 3, 4, <<90, 91, 92, 93, 94, 95, 96, 97, 98, 99>>,
                        HyperModSamples),
      scale |-> 5, default_chord |-> d, shift |-> 6, swarm |-> 7, width |-> 8,
      subosc |-> 9, chords |-> c] :
        n \in NameSamples, t \in BOOLEAN, e \in {0, 5},
        d \in {<<0, 0, 0, 0, 0, 0, 0>>, <<255, 1, 2, 3, 4, 5, 6>>},
        c \in ChordSamples}

\* bytes found in the padding position of a chord in a file
LeadSamples == {0, 65}

\* offset of the chords behind the name, the prefix, default_chord, the five
\* body bytes and SynthParams
HyperChordsOffset == 12 + 5 + 7 + 5 + 10 + HyperSynth_MOD_OFFSET + 4 * Mod_SIZE

HyperWrite ==
    /\ status = "run"
    /\ call.op = "none"
    /\ \E synth \in HyperSynthSamples :
          LET w == hypersynth_HyperSynth_write(synth, CurW)
          IN  /\ wbuffer' = w.buffer
              /\ call' = [op |-> "HyperSynth_write", at |-> Len(wbuffer),
                          arg |-> <<synth>>, ret |-> <<>>]
    /\ UNCHANGED <<buffer, position, status, version, slot_number, table_start,
                   cell, mappings>>

\* the environment overwrites the padding byte of every chord
SetChordLeads ==
    /\ status = "run"
    /\ call.op = "HyperSynth_write"
    /\ \E lead \in LeadSamples :
          /\ wbuffer' = [i \in 1..Len(wbuffer) |->
                            IF i > HyperChordsOffset /\ (i - HyperChordsOffset) % 7 = 1
                            THEN lead ELSE wbuffer[i]]
          /\ call' = [op |-> "set_chord_leads", at |-> call.at, arg |-> call.arg,
                      ret |-> <<lead>>]
    /\ UNCHANGED <<buffer, position, status, version, slot_number, table_start,
                   cell, mappings>>

\* HyperSynth::from_reader over a Reader on the bytes of the Writer
HyperFromReader ==
    /\ status = "run"
    /\ call.op \in {"HyperSynth_write", "set_chord_leads"}
    /\ LET res == hypersynth_HyperSynth_from_reader(Reader_new(wbuffer),
                                                    call.arg[1].number)
       IN  /\ buffer' = wbuffer
           /\ position' = res.r.position
           /\ status' = StatusAfter(res)
           /\ call' = [op |-> "HyperSynth_from_reader", at |-> 0,
                       arg |-> call.arg, ret |-> ResultOf(res)]
    /\ UNCHANGED <<wbuffer, version, slot_number, table_start, cell, mappings>>

InitHyper ==
    /\ version = [major |-> 3, minor |-> 0]
    /\ buffer = <<>>
    /\ position = 0
    /\ wbuffer = <<>>
    /\ status = "run"
    /\ call = NoCall
    /\ slot_number = 0
    /\ table_start = 0
    /\ cell = NoCell
    /\ mappings = NoMappings

NextHyper == HyperWrite \/ SetChordLeads \/ HyperFromReader

SpecHyper == InitHyper /\ [][NextHyper]_vars

----------------------------------------------------------------------------
(* Claims about the byte cursor.                                           *)

IsTerminator(x) == x = 0 \/ x = 255

\* C3: a read_string(n) that returns has advanced the cursor by exactly n, and
\* when one of the n bytes is 0x00 or 0xFF the text is exactly the bytes that
\* precede the first such byte.
C3_ReadStringStopsAtTerminator ==
    (call.op = "read_string" /\ status = "run") =>
        LET n  == call.arg[1]
            bs == SubSeq(buffer, call.at + 1, call.at + n)
        IN  /\ position = call.at + n
            /\ \A k \in 1..n :
                  (IsTerminator(bs[k]) /\ \A j \in 1..(k - 1) : ~IsTerminator(bs[j]))
                      => call.ret = SubSeq(bs, 1, k - 1)

\* a read_string(3) that returned one character followed by a terminator and
\* one more byte
C3_Witness ==
    /\ call.op = "read_string" /\ status = "run"
    /\ call.arg[1] = 3 /\ call.at = 0
    /\ call.ret = <<65>>
    /\ buffer[2] = 255 /\ buffer[3] = 65

\* C4: write_string(s, n) appends exactly n bytes: the bytes of s cut to n,
\* then 0x00 up to n.
C4_WriteStringAppendsN ==
    (call.op = "write_string" /\ status = "run") =>
        LET s == call.arg[1]
            n == call.arg[2]
        IN  /\ Len(wbuffer) = call.at + n
            /\ \A i \in 1..n :
                  wbuffer[call.at + i] = (IF i <= Len(s) THEN s[i] ELSE 0)

\* C5: fill_till(v, until) with until >= pos() leaves pos() = until, the bytes
\* from the old position on equal to v, the bytes before it unchanged, and
\* writes nothing when until equals the old position.
C5_FillTill ==
    [][(call'.op = "fill_till" /\ status' = "run" /\ call'.arg[2] >= Len(wbuffer)) =>
          LET v     == call'.arg[1]
              until == call'.arg[2]
              p     == Len(wbuffer)
          IN  /\ Len(wbuffer') = until
              /\ \A i \in (p + 1)..until : wbuffer'[i] = v
              /\ SubSeq(wbuffer', 1, p) = wbuffer
              /\ (until = p => wbuffer' = wbuffer)]_vars

\* a fill_till that wrote two bytes behind one that was already there
C5_Witness ==
    /\ call.op = "fill_till" /\ status = "run"
    /\ call.at = 1 /\ call.arg[2] = 3
    /\ wbuffer = <<65, 255, 255>>

----------------------------------------------------------------------------
(* Claims about the remapper.                                              *)

\* the categories in the order instrument, table, EQ
Categories == <<mappings.instr, mappings.table, mappings.eq>>

Applies(k, c) ==
    c.command \in Categories[k].tracking /\ c.value < Len(Categories[k].mapping)

\* C9: map_instr keeps the command; the value becomes mapping[value] of the
\* first category (instrument, table, EQ) that tracks the command and whose
\* mapping is longer than value; with no such category the cell is unchanged.
C9_MapInstrFirstCategory ==
    call.op = "map_instr" =>
        LET c == call.arg[1]
            r == call.ret
        IN  /\ r.command = c.command
            /\ \A k \in 1..3 :
                  (Applies(k, c) /\ \A j \in 1..(k - 1) : ~Applies(j, c))
                      => r.value = Categories[k].mapping[c.value + 1]
            /\ (\A k \in 1..3 : ~Applies(k, c)) => r = c

\* a cell whose value is beyond the instrument table, remapped through the
\* table category although the EQ category applies too with another value
C9_Witness ==
    /\ call.op = "map_instr"
    /\ ~Applies(1, call.arg[1]) /\ call.arg[1].command \in mappings.instr.tracking
    /\ Applies(2, call.arg[1]) /\ Applies(3, call.arg[1])
    /\ mappings.table.mapping[call.arg[1].value + 1] # mappings.eq.mapping[call.arg[1].value + 1]
    /\ call.ret.value # call.arg[1].value

IsIdentity(m) == \A i \in 1..Len(m) : m[i] = i - 1

\* C10 as stated: with the instrument mapping the identity, and any table and
\* EQ mappings, every cell is returned unchanged.
C10_IdentityInstrumentOnly ==
    (call.op = "map_instr" /\ IsIdentity(mappings.instr.mapping)) =>
        call.ret = call.arg[1]

\* C10 amended: with the instrument, table and EQ mappings all the identity,
\* every cell is returned unchanged.
C10_IdentityAllMappings ==
    (/\ call.op = "map_instr"
     /\ IsIdentity(mappings.instr.mapping)
     /\ IsIdentity(mappings.table.mapping)
     /\ IsIdentity(mappings.eq.mapping)) =>
        call.ret = call.arg[1]

\* identity tables of full length, and a tracked cell with a nonzero value that
\* was looked up in one of them
C10_Witness ==
    /\ call.op = "map_instr"
    /\ \A k \in 1..3 : IsIdentity(Categories[k].mapping) /\ Len(Categories[k].mapping) = MaxMapLen
    /\ Applies(2, call.arg[1]) /\ ~Applies(1, call.arg[1])
    /\ call.arg[1].value = 1


----------------------------------------------------------------------------
(* Claims about instrument decoding.                                       *)

SlotOps == {"from_reader2", "from_reader3"}

\* the kind byte of the slot the last call decoded
KindByte ==
    IF call.op \in SlotOps THEN buffer[call.at + 1] ELSE buffer[Version_SIZE + 1]

\* the last call went through the kind dispatch of a slot
Dispatched ==
    \/ call.op \in SlotOps
    \/ call.op = "Instrument_read" /\ Len(buffer) >= INSTRUMENT_MEMORY_SIZE + Version_SIZE

\* the kinds the dispatch of the last call knows
KnownKinds ==
    IF Version_at_least(version, 3, 0) THEN (0..6) \cup {255} ELSE (0..4) \cup {255}

\* C1: after k successful slot decodes (from_reader2 or from_reader3) that
\* started with the cursor at p, the cursor is at p + k * 215, whatever the
\* slots hold and however many bytes each variant decoder consumed.
C1_CursorOnSlotBoundary ==
    (status = "run" /\ call.op \in SlotOps) =>
        position = table_start + slot_number * INSTRUMENT_MEMORY_SIZE

\* two slots decoded from a table that starts behind a header: a MIDIOut, whose
\* decoder stops well before the slot boundary, then an empty slot
C1_Witness ==
    /\ status = "run" /\ call.op = "from_reader3"
    /\ table_start = Version_SIZE /\ slot_number = 2
    /\ buffer[table_start + 1] = 3
    /\ buffer[table_start + INSTRUMENT_MEMORY_SIZE + 1] = 255
    /\ position = Version_SIZE + 2 * INSTRUMENT_MEMORY_SIZE

\* C6: Instrument::read on an input shorter than 215 + Version::SIZE bytes
\* returns a ParseError and has read nothing: neither the version nor any
\* instrument field.
C6_ShortFileRejected ==
    (call.op = "Instrument_read" /\ Len(buffer) < INSTRUMENT_MEMORY_SIZE + Version_SIZE) =>
        /\ call.ret = [tag |-> "Err"]
        /\ status = "err"
        /\ call.hi = 0
        /\ position = 0
        /\ version = NoVersion

\* an input one byte short of a header and a slot, rejected
C6_Witness ==
    /\ call.op = "Instrument_read"
    /\ Len(buffer) = INSTRUMENT_MEMORY_SIZE + Version_SIZE - 1
    /\ Len(buffer) >= INSTRUMENT_MEMORY_SIZE
    /\ call.ret = [tag |-> "Err"]

\* C7: a slot whose kind byte is outside the known set of the dispatch makes
\* the decode return a ParseError to its caller, under the V2 and under the
\* V3+ dispatch.
C7_UnknownKindIsParseError ==
    (Dispatched /\ KindByte \notin KnownKinds) =>
        /\ call.ret = [tag |-> "Err"]
        /\ status = "err"

\* C8: a slot whose kind byte is 0xFF decodes to Instrument::None under both
\* dispatches, whatever its other 214 bytes hold, through the slot decoders
\* and through Instrument::read.
C8_KindFFIsNone ==
    (Dispatched /\ KindByte = 255) =>
        /\ call.ret = [tag |-> "Ok", val |-> InstrumentNone]
        /\ status = "run"

\* Instrument::read over a 3.0 header followed by 215 bytes of 0xFF
C8_Witness ==
    /\ call.op = "Instrument_read"
    /\ buffer = <<3, 0>> \o Repeat(255, INSTRUMENT_MEMORY_SIZE)
    /\ call.ret = [tag |-> "Ok", val |-> InstrumentNone]

----------------------------------------------------------------------------
(* Claims about the FM synth codec.                                        *)

\* C2: under every version, decoding what FMSynth::write wrote returns the
\* FMSynth that was written and consumes every byte written; below 1.4 no
\* shape bytes are written, so the ratio block follows the algo byte.
C2_FmRoundTrip ==
    call.op = "FMSynth_from_reader" =>
        /\ call.ret = [tag |-> "Ok", val |-> call.arg[1]]
        /\ position = Len(buffer)
        /\ (~Version_at_least(version, 1, 4) =>
               SubSeq(buffer, 19, 26) = RatioBytes(call.arg[1].operators))

----------------------------------------------------------------------------
(* Claims about the command tables and the FX cell codec.                  *)

\* the number of SEQ commands the versions are promised
PromisedSeqLen(ver) == IF Version_at_least(ver, 3, 0) THEN 27 ELSE 23

\* the table length the versions are promised
PromisedLen(ver) ==
    IF Version_at_least(ver, 4, 0) THEN 27 + 45
    ELSE IF Version_at_least(ver, 3, 0) THEN 27 + 36
    ELSE 23 + 36

\* C11: fx_command_names(v) is the 72-entry table from 4.0 on, the 63-entry
\* table from 3.0 up to 4.0 and the 59-entry table below 3.0, and try_render
\* on the returned table is Some exactly for the ids below its length.
C11_CommandTableByVersion ==
    /\ call.op = "fx_command_names" =>
          /\ Len(call.ret.commands) = PromisedLen(version)
          /\ SubSeq(call.ret.commands, 1, PromisedSeqLen(version)) \in
                {SEQ_COMMAND_V2, SEQ_COMMAND_V3}
    /\ call.op = "try_render" =>
          /\ Len(call.arg[1].commands) = PromisedLen(version)
          /\ (call.ret.tag = "Some") <=> (call.arg[2] < PromisedLen(version))

\* the last id of the 4.0 table, rendered
C11_Witness ==
    /\ call.op = "try_render"
    /\ version = [major |-> 4, minor |-> 0]
    /\ call.arg[2] = 71
    /\ call.ret = [tag |-> "Some", val |-> "NXT"]

\* C12: FX::write appends two bytes, command then value; FX::from_reader on
\* them returns the cell written and moves the cursor by 2; a cell written
\* with command 0xFF starts with the byte 0xFF and decodes to a cell for
\* which is_empty() holds.
C12_FxRoundTrip ==
    /\ call.op = "FX_write" =>
          /\ Len(wbuffer) = call.at + 2
          /\ wbuffer[call.at + 1] = call.arg[1].command
          /\ wbuffer[call.at + 2] = call.arg[1].value
    /\ call.op = "FX_from_reader" =>
          /\ call.ret = [tag |-> "Ok", val |-> call.arg[1]]
          /\ position = call.at + 2
          /\ position = Len(buffer)
    /\ call.op = "is_empty" =>
          (buffer[call.at + 1] = 255 => call.ret = TRUE)

\* a second cell, empty and with a value, written behind a first one, read
\* back and found empty
C12_Witness ==
    /\ call.op = "is_empty"
    /\ call.at = 2
    /\ wbuffer = <<1, 7, 255, 7>>
    /\ cell = [command |-> 255, value |-> 7]
    /\ call.ret = TRUE

\* position at which the slot decoded by the last call starts
SlotStart == IF call.op \in SlotOps THEN call.at ELSE Version_SIZE

\* the packed flags byte of that slot: it follows the kind byte and the name
FlagsByte == buffer[SlotStart + 14]

\* the last call decoded a slot into an instrument other than None
DecodedVariant ==
    Dispatched /\ status = "run" /\ call.ret.val.kind # "None"

\* C13: every variant decodes the flags byte b as transpose = (b != 0) and
\* eq_number = 0 below 3.0, and as transpose = ((b & 1) != 0) and
\* eq_number = b >> 1 from 3.0 on.
C13_PackedFlagsByVersion ==
    DecodedVariant =>
        LET b == FlagsByte
            v == call.ret.val
        IN  IF Version_at_least(version, 3, 0)
            THEN /\ v.transpose = (b % 2 # 0)
                 /\ "eq_number" \in DOMAIN v => v.eq_number = b \div 2
            ELSE /\ v.transpose = (b # 0)
                 /\ "eq_number" \in DOMAIN v => v.eq_number = 0

----------------------------------------------------------------------------
(* Claims about the modulators.                                            *)

\* the variant of each known type nibble
ModKindOfType == <<"AHDEnv", "ADSREnv", "DrumEnv", "LFO", "TrigEnv", "TrackingEnv">>

\* the fields of each variant in the order of the bytes behind the first one
ModFieldOrder ==
    [AHDEnv      |-> <<"amount", "attack", "hold", "decay">>,
     ADSREnv     |-> <<"amount", "attack", "decay", "sustain", "release">>,
     DrumEnv     |-> <<"amount", "peak", "body", "decay">>,
     LFO         |-> <<"amount", "shape", "trigger_mode", "freq">>,
     TrigEnv     |-> <<"amount", "attack", "hold", "decay", "src">>,
     TrackingEnv |-> <<"amount", "src", "lval", "hval">>]

\* C14: Mod::from_reader on a record at s takes the type from the high nibble
\* and dest from the low nibble of byte 0, maps types 0..5 to AHDEnv, ADSREnv,
\* DrumEnv, LFO, TrigEnv, TrackingEnv with the following bytes read in field
\* order, and leaves the cursor at s + 6, so that n records in a row consume
\* 6 * n bytes.
C14_ModRecord ==
    (call.op = "Mod_from_reader" /\ status = "run") =>
        LET s      == call.at
            ty     == buffer[s + 1] \div 16
            m      == call.ret.val
            fields == ModFieldOrder[m.kind]
        IN  /\ ty \in 0..5
            /\ call.ret.tag = "Ok"
            /\ m.kind = ModKindOfType[ty + 1]
            /\ m.dest = buffer[s + 1] % 16
            /\ DOMAIN m = {"kind", "dest"} \cup {fields[i] : i \in 1..Len(fields)}
            /\ \A i \in 1..Len(fields) : m[fields[i]] = buffer[s + 1 + i]
            /\ position = s + Mod_SIZE
            /\ position = table_start + slot_number * Mod_SIZE

\* the record 0x0A 0x20 0x00 0x40 0x00 0x00 decoded as the fourth of a run
\* that began at position 0, the cursor ending at 24
C14_Witness ==
    /\ call.op = "Mod_from_reader" /\ status = "run"
    /\ table_start = 0 /\ slot_number = 4 /\ position = 24
    /\ SubSeq(buffer, 19, 24) = <<10, 32, 0, 64, 0, 0>>
    /\ call.ret.val = [kind |-> "AHDEnv", dest |-> 10, amount |-> 32, attack |-> 0,
                       hold |-> 64, decay |-> 0]

\* an FMSynth with ratios 1, 2, 3, 4 and all other operator bytes zero has
\* just been written under version 1.5
WroteRatioSynth ==
    /\ call.op = "FMSynth_write"
    /\ version = [major |-> 1, minor |-> 5]
    /\ call.arg[1].operators = RatioOperators

\* the byte at offset k of the ratio block, which follows the name, the five
\* prefix bytes, the algo byte and the four shape bytes
RatioBlockAt(k) == wbuffer[call.at + 12 + 5 + 1 + 4 + k + 1]

\* C15 as stated: the ratios 1, 2, 3, 4 stand at offsets +1, +3, +5, +7 of the
\* ratio block.
C15_RatiosAtOddOffsets ==
    WroteRatioSynth => \A i \in 1..4 : RatioBlockAt(2 * i - 1) = i

\* C15 amended: the ratios 1, 2, 3, 4 stand at offsets +0, +2, +4, +6 of the
\* ratio block, the first byte of the block being offset 0, and the offsets
\* +1, +3, +5, +7 hold the ratio_fine bytes, which are 0.
C15_RatiosAtEvenOffsets ==
    WroteRatioSynth =>
        \A i \in 1..4 : RatioBlockAt(2 * i - 2) = i /\ RatioBlockAt(2 * i - 1) = 0

\* the synth of the scenario written, its ratio block holding 1 0 2 0 3 0 4 0
C15_Witness ==
    /\ WroteRatioSynth
    /\ SubSeq(wbuffer, 23, 30) = <<1, 0, 2, 0, 3, 0, 4, 0>>
    /\ SubSeq(wbuffer, 19, 22) = <<0, 0, 0, 0>>

\* the 128 bytes of the sample_path field of the slot the last call decoded
SamplePathField ==
    SubSeq(buffer, SlotStart + SAMPLE_PATH_OFFSET + 1, SlotStart + SAMPLE_PATH_OFFSET + 128)

\* C16: under both dispatches a Sampler's sample_path is the text of the 128
\* bytes at slot offset 0x57, up to their first 0x00 or 0xFF, wherever the
\* SynthParams decoder left the cursor, and the cursor ends at the slot end.
C16_SamplePathAtFixedOffset ==
    (DecodedVariant /\ call.ret.val.kind = "Sampler") =>
        /\ \A k \in 1..128 :
              (/\ IsTerminator(SamplePathField[k])
               /\ \A j \in 1..(k - 1) : ~IsTerminator(SamplePathField[j]))
                  => call.ret.val.sample_path = SubSeq(SamplePathField, 1, k - 1)
        /\ position = SlotStart + INSTRUMENT_MEMORY_SIZE

\* the second Sampler of a table behind a header, decoded by from_reader3 from
\* a slot filled with 'A' and holding "kick.wav" and a NUL at offset 0x57
C16_Witness ==
    /\ call.op = "from_reader3" /\ status = "run"
    /\ call.at = Version_SIZE + INSTRUMENT_MEMORY_SIZE
    /\ buffer[call.at + 1] = 2 /\ buffer[call.at + 2] = 65
    /\ call.ret.val.kind = "Sampler"
    /\ call.ret.val.sample_path = <<107, 105, 99, 107, 46, 119, 97, 118>>
    /\ position = call.at + INSTRUMENT_MEMORY_SIZE

----------------------------------------------------------------------------
(* Claims about FM synth decoding.                                         *)

\* the algo byte and the four shape bytes of the image
AlgoByte == buffer[table_start + 12 + 5 + 1]
ShapeByte(i) == buffer[table_start + 12 + 5 + 1 + i]

\* C17: decoding an FMSynth whose algo byte is 12 or more fails with a
\* ParseError, so every FMSynth that from_reader returns has algo.id() < 12
\* and FmAlgo::str() never indexes past the 12-entry table.
C17_AlgoValidated ==
    /\ (call.op = "FMSynth_from_reader" /\ AlgoByte >= 12) => call.ret = [tag |-> "Err"]
    /\ (call.op = "FMSynth_from_reader" /\ call.ret.tag = "Ok") =>
          FmAlgo_id(call.ret.val.algo) < 12
    /\ call.op = "FmAlgo_str" => status = "run"

\* the last call decoded the image under a version that reads its shape bytes
DecodedWithShapes ==
    call.op = "FMSynth_from_reader" /\ Version_at_least(version, 1, 4)

\* the last call decoded the image under a version that has no shape bytes:
\* every shape is SIN and the ratio block was read from behind the algo byte
DecodedWithoutShapes ==
    (call.op = "FMSynth_from_reader" /\ ~Version_at_least(version, 1, 4)) =>
        /\ call.ret.tag = "Ok"
        /\ \A i \in 1..4 : call.ret.val.operators[i].shape = 0
        /\ call.ret.val.operators[1].ratio = ShapeByte(1)

\* the shape bytes below bound are accepted, any other is a ParseError
ShapesAcceptedBelow(bound) ==
    DecodedWithShapes =>
        /\ (\E i \in 1..4 : ShapeByte(i) >= bound) => call.ret = [tag |-> "Err"]
        /\ (\A i \in 1..4 : ShapeByte(i) < bound) /\ AlgoByte < 12 =>
              /\ call.ret.tag = "Ok"
              /\ \A i \in 1..4 : call.ret.val.operators[i].shape = ShapeByte(i)

\* C18 as stated: from 1.4 on a shape byte is accepted exactly when it is in
\* 0..0x4E (0x4E excluded, as 0x0C is for the algo), any other gives a
\* ParseError; below 1.4 no shape byte is read and every shape is SIN.
C18_ShapesBelow4E == ShapesAcceptedBelow(78) /\ DecodedWithoutShapes

\* C18 amended: from 1.4 on a shape byte is accepted exactly when it is one of
\* the 77 FMWave ids 0..=0x4C, any other gives a ParseError; below 1.4 no
\* shape byte is read and every shape is SIN.
C18_ShapesAreFMWaveIds == ShapesAcceptedBelow(77) /\ DecodedWithoutShapes

\* the last variant W45 (0x4C) accepted as the shape of the second operator
C18_Witness ==
    /\ DecodedWithShapes
    /\ ShapeByte(2) = 76
    /\ call.ret.tag = "Ok"
    /\ call.ret.val.operators[2].shape = 76

\* the first field of the variant-specific body of a decoded instrument
FirstBodyField(v) ==
    CASE v.kind = "WavSynth"   -> v.shape
      [] v.kind = "MacroSynth" -> v.shape
      [] v.kind = "Sampler"    -> v.play_mode
      [] v.kind = "MIDIOut"    -> v.port
      [] v.kind = "FMSynth"    -> v.algo
      [] v.kind = "HyperSynth" -> v.chord[1]
      [] OTHER                 -> v.input

\* C19: every variant decoder reads, behind the kind byte, the 17-byte prefix
\* name(12), flags, table_tick, volume, pitch, fine_tune, so that table_tick
\* comes from slot offset 14, volume, pitch and fine_tune (where the variant
\* has them) from offsets 15..17, and the first body field from offset 18.
C19_SharedPrefix ==
    DecodedVariant =>
        LET v == call.ret.val
            s == SlotStart
        IN  /\ v.table_tick = buffer[s + 14 + 1]
            /\ "synth_params" \in DOMAIN v =>
                  /\ v.synth_params.volume = buffer[s + 15 + 1]
                  /\ v.synth_params.pitch = buffer[s + 16 + 1]
                  /\ v.synth_params.fine_tune = buffer[s + 17 + 1]
            /\ FirstBodyField(v) = buffer[s + 18 + 1]

----------------------------------------------------------------------------
(* Claims about the HyperSynth codec.                                      *)

\* C20: HyperSynth::write emits the 16 chords as 16 consecutive 7-byte slots
\* directly behind SynthParams, each 0xFF followed by its 6 keys in order (112
\* bytes, the last of the image); HyperSynth::from_reader drops the leading
\* byte of each slot whatever it holds and reads the 6 keys in the same
\* order, so the chords decoded are the chords written.
C20_ChordsRoundTrip ==
    /\ call.op = "HyperSynth_write" =>
          /\ Len(wbuffer) = call.at + HyperChordsOffset + 16 * 7
          /\ \A i \in 1..16 :
                LET at == call.at + HyperChordsOffset + 7 * (i - 1)
                IN  /\ wbuffer[at + 1] = 255
                    /\ SubSeq(wbuffer, at + 2, at + 7) = call.arg[1].chords[i]
    /\ call.op = "HyperSynth_from_reader" =>
          /\ call.ret.tag = "Ok"
          /\ call.ret.val.chords = call.arg[1].chords
          /\ call.ret.val = call.arg[1]
          /\ position = Len(buffer)

\* chords with all keys different read back from bytes whose padding bytes
\* were overwritten with 'A'
C20_Witness ==
    /\ call.op = "HyperSynth_from_reader"
    /\ buffer[HyperChordsOffset + 1] = 65 /\ buffer[HyperChordsOffset + 8] = 65
    /\ call.arg[1].chords[2] = <<13, 14, 15, 16, 17, 18>>
    /\ call.ret.val.chords = call.arg[1].chords
    /\ SubSeq(buffer, HyperChordsOffset + 9, HyperChordsOffset + 14) = <<13, 14, 15, 16, 17, 18>>

----------------------------------------------------------------------------
(* Claims about failures inside a slot.                                    *)

\* the kinds whose decoder reads SynthParams, and with them the modulators
SynthKinds == {0, 1, 2, 4, 5, 6}

\* slot offset of the first modulator record from 3.0 on: the kind byte, the
\* name, the five prefix bytes, and for a WavSynth five body bytes, the ten
\* SynthParams bytes and a gap of 30
MODS_OFFSET == 1 + 12 + 5 + 5 + 10 + 30

\* the first byte of modulator record k (0..3) of the slot the last call decoded
ModFirstByte(k) == buffer[SlotStart + MODS_OFFSET + Mod_SIZE * k + 1]

\* the last call decoded, from 3.0 on, a slot of a kind with modulators, one
\* of which has a type nibble outside 0..5
UnknownModType ==
    /\ Dispatched
    /\ Version_at_least(version, 3, 0)
    /\ KindByte \in SynthKinds
    /\ \E k \in 0..3 : ModFirstByte(k) \div 16 \notin 0..5

\* C21: from 3.0 on, a modulator record whose type nibble is outside 0..5 (a
\* record left as 0xFF padding included) makes the decode of the instrument
\* return a ParseError to its caller, and no Instrument.
C21_UnknownModTypeIsParseError ==
    UnknownModType => call.ret.tag = "Err"


\* the modulator decoded from the record at index s of the buffer
ModAt(m, s) ==
    LET ty     == buffer[s + 1] \div 16
        fields == ModFieldOrder[m.kind]
    IN  /\ ty \in 0..5
        /\ m.kind = ModKindOfType[ty + 1]
        /\ m.dest = buffer[s + 1] % 16
        /\ \A i \in 1..Len(fields) : m[fields[i]] = buffer[s + 1 + i]

\* the last call decoded, from 3.0 on, a slot of a kind with modulators
DecodedSynth3 ==
    /\ DecodedVariant
    /\ call.op # "from_reader2"
    /\ Version_at_least(version, 3, 0)
    /\ KindByte \in SynthKinds

\* C22: under the dispatch of 3.0 on, for WavSynth, MacroSynth, Sampler,
\* FMSynth, HyperSynth and External alike, the kind byte, the prefix, the
\* body, the 10 SynthParams bytes and the mod gap of the variant add up to 63:
\* the four modulators are decoded from the records at slot offsets 63, 69, 75
\* and 81, which end at 0x57, where the sample_path of the Sampler begins.
C22_ModsAtFixedOffset ==
    /\ MODS_OFFSET + 4 * Mod_SIZE = SAMPLE_PATH_OFFSET
    /\ DecodedSynth3 =>
          \A k \in 0..3 :
              ModAt(call.ret.val.synth_params.mods[k + 1], SlotStart + MODS_OFFSET + Mod_SIZE * k)

\* an External slot whose byte at offset i is i, decoded by from_reader3: the
\* first modulator is the LFO of the bytes 0x3F 0x40 0x41 0x42 0x43 at offset
\* 63, the last the TrackingEnv of the bytes at offset 81
C22_Witness ==
    /\ DecodedSynth3
    /\ call.op = "from_reader3"
    /\ KindByte = 6
    /\ SubSeq(buffer, SlotStart + 64, SlotStart + 68) = <<63, 64, 65, 66, 67>>
    /\ call.ret.val.synth_params.mods[1] =
          [kind |-> "LFO", dest |-> 15, amount |-> 64, shape |-> 65,
           trigger_mode |-> 66, freq |-> 67]
    /\ call.ret.val.synth_params.mods[4] =
          [kind |-> "TrackingEnv", dest |-> 1, amount |-> 82, src |-> 83,
           lval |-> 84, hval |-> 85]


\* C23: whatever the kind byte and the version, the decode of a slot that
\* starts at position start reads no byte at index start + 215 or beyond (the
\* sample_path of a Sampler ends right there); so Instrument::read, once its
\* length test has passed, reads nothing behind the header and the one slot,
\* and panics only on an unknown kind or modulator type, never on an index.
C23_ReadsStayInSlot ==
    /\ call.op \in SlotOps => call.hi <= call.at + INSTRUMENT_MEMORY_SIZE
    /\ (call.op = "Instrument_read" /\ Len(buffer) >= INSTRUMENT_MEMORY_SIZE + Version_SIZE) =>
          call.hi <= Version_SIZE + INSTRUMENT_MEMORY_SIZE
    /\ (call.op = "Instrument_read" /\ status = "panic") =>
          (KindByte \notin KnownKinds \/ UnknownModType)

\* Instrument::read of a file of exactly a header and a Sampler slot: the
\* sample_path is the last thing read, and its last byte is the last of the file
C23_Witness ==
    /\ call.op = "Instrument_read"
    /\ Len(buffer) = INSTRUMENT_MEMORY_SIZE + Version_SIZE
    /\ KindByte = 2
    /\ status = "run"
    /\ call.ret.val.kind = "Sampler"
    /\ call.hi = Len(buffer)


----------------------------------------------------------------------------
(* Claims about text that fills its field.                                 *)

\* C24: when none of the n bytes read_string(n) consumes is 0x00 or 0xFF, the
\* text returned is all n bytes: a name that fills its field, or a
\* sample_path with no terminator, is neither cut nor emptied.
C24_FullFieldKept ==
    (call.op = "read_string" /\ status = "run") =>
        LET n  == call.arg[1]
            bs == SubSeq(buffer, call.at + 1, call.at + n)
        IN  (\A k \in 1..n : ~IsTerminator(bs[k])) => call.ret = bs

====
